---- MODULE Spec2Model ----
(***************************************************************************)
(* HealthTrackerPro: the client-side aggregations (reports health index,  *)
(* sleep page, metric value decoding, goal progress) and the goal routes  *)
(* of the in-memory record store, as state machines.                       *)
(*                                                                         *)
(* JavaScript numbers are modelled as exact rationals plus NaN and the two *)
(* infinities: [k |-> "num", n |-> numerator, d |-> denominator > 0],      *)
(* [k |-> "nan"], [k |-> "inf", n |-> +1 or -1].  The rounding error of    *)
(* IEEE doubles and the sign of zero are not modelled.  JavaScript null is *)
(* [k |-> "null"]; arithmetic converts it with ToNumber.                   *)
(* Time is counted in ticks, TicksPerDay ticks to a calendar day.          *)
(***************************************************************************)
EXTENDS Integers, Sequences, FiniteSets, TLC

VARIABLES
    now,            \* new Date() read by the page being rendered
    metric,         \* a stored HealthMetric handed to one of the decoding call sites
    point,          \* the chart point the call site made of metric
    user,           \* the User the Router fetched and hands to every page
    healthMetrics,  \* the user's health metrics, in the store's order
    exerciseLogs,   \* the user's exercise logs, in the store's order
    meals,          \* the user's meals, in the store's order
    timeRange,      \* Reports: the selected time range
    reportData,     \* Reports: what processData returned at the last render
    sleepView,      \* Sleep page: what the last render computed and showed
    goals,          \* server: the goals Map, in insertion order
    goalId,         \* server: the next goal id
    goalsData,      \* Goals page: the goals the query last fetched
    finalData,      \* Goals page: what onSubmit last sent
    goalOps,        \* Goals page: the number of operations done so far
    bpView,         \* what the last render made of the blood pressure readings
    exerciseView,   \* Exercise page: what processExerciseData returned
    dateParsing,    \* how this browser's Date reads a text that has no year
    storage,        \* server: the MemStorage object, its maps and id counters
    response,       \* server: the response to the last request
    storeOps,       \* the number of requests that changed the storage
    route,          \* client: the page the router shows
    queryCache,     \* client: the query client's cache, by query key
    fetching,       \* client: the query keys with a fetch in flight
    staleTime,      \* client: the query client's staleTime
    fetcher,        \* client: by query key, the page whose queryFn the fetch runs
    appointments,   \* Appointments page: what its query returned
    groupedAppointments  \* Appointments page: the tabs computed when the data last changed

decodeVars == <<metric, point>>

recordVars == <<user, healthMetrics, exerciseLogs, meals>>

reportVars == <<timeRange, reportData>>

sleepVars == <<sleepView>>

goalVars == <<goals, goalId, goalsData, finalData, goalOps>>

bpVars == <<bpView>>

\* The state of the parts modelled after the first four.
exerciseVars == <<exerciseView, dateParsing>>

storeVars == <<storage, response, storeOps>>

clientVars == <<route, queryCache, fetching, staleTime, fetcher>>

appointmentVars == <<appointments, groupedAppointments>>

extraVars == <<bpVars, exerciseVars, storeVars, clientVars, appointmentVars>>

vars == <<now, decodeVars, recordVars, reportVars, sleepVars, goalVars, extraVars>>

\* What each page's actions leave alone.
reportsRest == <<decodeVars, sleepVars, goalVars, extraVars>>

decodeRest == <<recordVars, reportVars, sleepVars, goalVars, extraVars>>

sleepRest == <<decodeVars, reportVars, goalVars, extraVars>>

goalsRest == <<decodeVars, recordVars, reportVars, sleepVars, extraVars>>

bpRest ==
    <<decodeVars, reportVars, sleepVars, goalVars, exerciseVars, storeVars, clientVars,
      appointmentVars>>

exerciseRest ==
    <<decodeVars, sleepVars, goalVars, bpVars, storeVars, clientVars, appointmentVars>>

storeRest ==
    <<decodeVars, recordVars, reportVars, sleepVars, goalVars, bpVars, exerciseVars, clientVars,
      appointmentVars>>

clientRest ==
    <<decodeVars, healthMetrics, exerciseLogs, meals, reportVars, sleepVars, goalVars, bpVars,
      exerciseVars, appointmentVars>>

----------------------------------------------------------------------------
(* JavaScript numbers *)

AbsInt(x) == IF x < 0 THEN -x ELSE x

RECURSIVE Gcd(_, _)
Gcd(a, b) == IF b = 0 THEN a ELSE Gcd(b, a % b)

\* The finite number n/d (d > 0), in lowest terms.
Fin(n, d) ==
    LET g == Gcd(AbsInt(n), d)
    IN  [k |-> "num", n |-> n \div g, d |-> d \div g]

Num(n) == Fin(n, 1)

NaN == [k |-> "nan", n |-> 0, d |-> 1]

PosInf == [k |-> "inf", n |-> 1, d |-> 1]

NegInf == [k |-> "inf", n |-> -1, d |-> 1]

Null == [k |-> "null", n |-> 0, d |-> 1]

Sign(a) == IF a.n > 0 THEN 1 ELSE IF a.n < 0 THEN -1 ELSE 0

InfOf(s) == IF s < 0 THEN NegInf ELSE PosInf

\* ToNumber: null converts to +0, a number to itself.
ToNumber(v) == IF v.k = "null" THEN Num(0) ELSE v

\* ToBoolean of a number or null: null, 0 and NaN are falsy.
Truthy(v) == v.k = "inf" \/ (v.k = "num" /\ v.n # 0)

JsNeg(a0) ==
    LET a == ToNumber(a0)
    IN  IF a.k = "nan" THEN NaN
        ELSE IF a.k = "inf" THEN InfOf(-a.n)
        ELSE Fin(-a.n, a.d)

JsAdd(a0, b0) ==
    LET a == ToNumber(a0)
        b == ToNumber(b0)
    IN  IF a.k = "nan" \/ b.k = "nan" THEN NaN
        ELSE IF a.k = "inf" /\ b.k = "inf" THEN (IF a.n = b.n THEN a ELSE NaN)
        ELSE IF a.k = "inf" THEN a
        ELSE IF b.k = "inf" THEN b
        ELSE Fin(a.n * b.d + b.n * a.d, a.d * b.d)

JsSub(a, b) == JsAdd(a, JsNeg(b))

JsMul(a0, b0) ==
    LET a == ToNumber(a0)
        b == ToNumber(b0)
    IN  IF a.k = "nan" \/ b.k = "nan" THEN NaN
        ELSE IF a.k = "inf" \/ b.k = "inf"
             THEN (IF Sign(a) = 0 \/ Sign(b) = 0 THEN NaN ELSE InfOf(Sign(a) * Sign(b)))
        ELSE Fin(a.n * b.n, a.d * b.d)

JsDiv(a0, b0) ==
    LET a == ToNumber(a0)
        b == ToNumber(b0)
    IN  IF a.k = "nan" \/ b.k = "nan" THEN NaN
        ELSE IF a.k = "inf" /\ b.k = "inf" THEN NaN
        ELSE IF a.k = "inf" THEN InfOf(IF Sign(b) < 0 THEN -a.n ELSE a.n)
        ELSE IF b.k = "inf" THEN Num(0)
        ELSE IF b.n = 0 THEN (IF a.n = 0 THEN NaN ELSE InfOf(Sign(a)))
        ELSE Fin(Sign(b) * a.n * b.d, a.d * AbsInt(b.n))

\* a < b; false when either side is NaN.
JsLt(a0, b0) ==
    LET a == ToNumber(a0)
        b == ToNumber(b0)
    IN  IF a.k = "nan" \/ b.k = "nan" THEN FALSE
        ELSE IF a.k = "inf" THEN a.n < 0 /\ ~(b.k = "inf" /\ b.n < 0)
        ELSE IF b.k = "inf" THEN b.n > 0
        ELSE a.n * b.d < b.n * a.d

JsGt(a, b) == JsLt(b, a)

\* a === b on numbers; NaN equals nothing.
JsEq(a, b) == a.k # "nan" /\ b.k # "nan" /\ a = b

JsGe(a, b) == JsGt(a, b) \/ JsEq(ToNumber(a), ToNumber(b))

JsLe(a, b) == JsLt(a, b) \/ JsEq(ToNumber(a), ToNumber(b))

isNaN(a) == a.k = "nan"

MathAbs(a0) ==
    LET a == ToNumber(a0)
    IN  IF a.k = "nan" THEN NaN
        ELSE IF a.k = "inf" THEN PosInf
        ELSE Fin(AbsInt(a.n), a.d)

\* Math.min: NaN when either argument is NaN.
MathMin(a0, b0) ==
    LET a == ToNumber(a0)
        b == ToNumber(b0)
    IN  IF a.k = "nan" \/ b.k = "nan" THEN NaN
        ELSE IF JsLt(b, a) THEN b ELSE a

\* Math.round: floor(x + 0.5); NaN and the infinities round to themselves.
MathRound(a0) ==
    LET a == ToNumber(a0)
    IN  IF a.k # "num" THEN a
        ELSE Num((2 * a.n + a.d) \div (2 * a.d))

IsInteger(a) == a.k = "num" /\ a.d = 1

----------------------------------------------------------------------------
(* Text: a string is a sequence of one-character strings. *)

Digit == {"0", "1", "2", "3", "4", "5", "6", "7", "8", "9"}

DigitVal(c) == CHOOSE i \in 0..9 : ToString(i) = c

RECURSIVE TrimStart(_)
TrimStart(s) == IF s # <<>> /\ Head(s) = " " THEN TrimStart(Tail(s)) ELSE s

\* The number of digits s starts with.
RECURSIVE DigitRun(_)
DigitRun(s) == IF s # <<>> /\ Head(s) \in Digit THEN 1 + DigitRun(Tail(s)) ELSE 0

\* The decimal value of a sequence of digits, acc being the value read so far.
RECURSIVE DigitsValue(_, _)
DigitsValue(s, acc) ==
    IF s = <<>> THEN acc ELSE DigitsValue(Tail(s), 10 * acc + DigitVal(Head(s)))

RECURSIVE Pow10(_)
Pow10(e) == IF e = 0 THEN 1 ELSE 10 * Pow10(e - 1)

\* The global parseFloat: leading white space is skipped, the longest prefix
\* that is a decimal literal (sign, digits, fraction) is converted and whatever
\* follows it is ignored; NaN when there is no such prefix.  Texts here hold
\* no exponent marker and do not spell Infinity.
\* u: the text after the sign; ni, nf: the digits before and after the point.
ParseValue(u, neg, ni, nf) ==
    IF ni = 0 /\ nf = 0 THEN NaN
    ELSE Fin((IF neg THEN -1 ELSE 1)
                 * DigitsValue(SubSeq(u, 1, ni) \o SubSeq(u, ni + 2, ni + 1 + nf), 0),
             Pow10(nf))

ParseFraction(u, neg, ni) ==
    ParseValue(u, neg, ni,
               IF ni < Len(u) /\ u[ni + 1] = "."
               THEN DigitRun(SubSeq(u, ni + 2, Len(u)))
               ELSE 0)

ParseSigned(t) ==
    IF t # <<>> /\ Head(t) \in {"-", "+"}
    THEN ParseFraction(Tail(t), Head(t) = "-", DigitRun(Tail(t)))
    ELSE ParseFraction(t, FALSE, DigitRun(t))

parseFloat(str) == ParseSigned(TrimStart(str))

----------------------------------------------------------------------------
(* Bounds *)

MaxTextLen == 4

TicksPerDay == 2

MaxMetrics == 2

MaxExercise == 1

MaxMeals == 1

\* The sequences over S of length at most n.
SeqsUpTo(S, n) == UNION {[1..k -> S] : k \in 0..n}

Last(s) == s[Len(s)]

\* Array.prototype.map
RECURSIVE MapSeq(_, _)
MapSeq(F(_), s) == IF s = <<>> THEN <<>> ELSE <<F(Head(s))>> \o MapSeq(F, Tail(s))

\* Array.prototype.reduce with an initial value
RECURSIVE Reduce(_, _, _)
Reduce(F(_, _), s, acc) == IF s = <<>> THEN acc ELSE Reduce(F, Tail(s), F(acc, Head(s)))

----------------------------------------------------------------------------
(* Dates: a Date is a tick count since 1970-01-01 00:00 local time; the      *)
(* calendar is the proleptic Gregorian one.                                  *)

\* The day number of year y, month m (1..12), day d.
DaysFromYoe(era, yoe, m, d) ==
    era * 146097 + yoe * 365 + yoe \div 4 - yoe \div 100
        + (153 * (IF m > 2 THEN m - 3 ELSE m + 9) + 2) \div 5 + d - 1 - 719468

DaysFromShifted(y, m, d) == DaysFromYoe(y \div 400, y % 400, m, d)

DaysFromCivil(y, m, d) == DaysFromShifted(IF m <= 2 THEN y - 1 ELSE y, m, d)

\* The year, month and day of day number z.
MkCivil(y, m, d) == [y |-> y + (IF m <= 2 THEN 1 ELSE 0), m |-> m, d |-> d]

CivilFromMp(y, doy, mp) ==
    MkCivil(y, IF mp < 10 THEN mp + 3 ELSE mp - 9, doy - (153 * mp + 2) \div 5 + 1)

CivilFromDoy(y, doy) == CivilFromMp(y, doy, (5 * doy + 2) \div 153)

CivilFromYoe(era, doe, yoe) ==
    CivilFromDoy(yoe + era * 400, doe - (365 * yoe + yoe \div 4 - yoe \div 100))

CivilFromDoe(era, doe) ==
    CivilFromYoe(era, doe,
                 (doe - doe \div 1460 + doe \div 36524 - doe \div 146096) \div 365)

CivilFromDays(z) == CivilFromDoe((z + 719468) \div 146097, (z + 719468) % 146097)

DayOf(t) == t \div TicksPerDay

TimeOfDay(t) == t % TicksPerDay

DaysInMonth(y, m) ==
    DaysFromCivil(IF m = 12 THEN y + 1 ELSE y, IF m = 12 THEN 1 ELSE m + 1, 1)
        - DaysFromCivil(y, m, 1)

\* date-fns subDays: the same time of day, amount calendar days earlier.
subDays(t, amount) == t - amount * TicksPerDay

\* date-fns subMonths: the same day of the month amount months earlier, or
\* that month's last day when it is shorter; the time of day is kept.
ClampDay(y, m, d, dim) == DaysFromCivil(y, m, IF d < dim THEN d ELSE dim)

DayInMonthIndex(mi, d) ==
    ClampDay(mi \div 12, (mi % 12) + 1, d, DaysInMonth(mi \div 12, (mi % 12) + 1))

SubMonthsCivil(c, amount) == DayInMonthIndex(c.y * 12 + (c.m - 1) - amount, c.d)

subMonths(t, amount) ==
    SubMonthsCivil(CivilFromDays(DayOf(t)), amount) * TicksPerDay + TimeOfDay(t)

\* date-fns format(date, "MMM dd"): the month and the day of the month; the
\* year and the time of day are dropped.
MonthDay(c) == [m |-> c.m, d |-> c.d]

FormatMMMdd(t) == MonthDay(CivilFromDays(DayOf(t)))

Today == DaysFromCivil(2026, 11, 1)

\* Array.prototype.sort by ascending date; the sort is stable.
RECURSIVE InsertByDate(_, _)
InsertByDate(x, s) ==
    IF s = <<>> THEN <<x>>
    ELSE IF s[Len(s)].date <= x.date THEN Append(s, x)
    ELSE Append(InsertByDate(x, SubSeq(s, 1, Len(s) - 1)), s[Len(s)])

SortByDateAsc(s) == Reduce(LAMBDA acc, x : InsertByDate(x, acc), s, <<>>)

(* JSON texts: a JSON text is a sequence of lexemes; the texts here hold no    *)
(* array, no boolean and no number other than a natural one.                  *)

Undefined == [k |-> "undefined", n |-> 0, d |-> 1]

Str(lexeme) == [k |-> "str", n |-> 0, d |-> 1, s |-> lexeme]

Obj(members) == [k |-> "obj", n |-> 0, d |-> 1, members |-> members]

NumberLexemes == {"120", "80", "130", "85"}

StringLexemes == {"\"systolic\"", "\"diastolic\"", "\"abc\""}

LexemeValue(lexeme) == CHOOSE i \in 0..200 : ToString(i) = lexeme

\* The outcome of reading a value: next is the position after it.
Parsed(value, next) == [ok |-> TRUE, value |-> value, next |-> next]

SyntaxError == [ok |-> FALSE, value |-> Undefined, next |-> 0]

RECURSIVE JsonValue(_, _)
RECURSIVE JsonMembers(_, _, _)
RECURSIVE JsonAfterMember(_, _, _, _)

JsonValue(toks, i) ==
    IF i > Len(toks) THEN SyntaxError
    ELSE IF toks[i] = "null" THEN Parsed(Null, i + 1)
    ELSE IF toks[i] \in NumberLexemes THEN Parsed(Num(LexemeValue(toks[i])), i + 1)
    ELSE IF toks[i] \in StringLexemes THEN Parsed(Str(toks[i]), i + 1)
    ELSE IF toks[i] = "{"
    THEN IF i + 1 <= Len(toks) /\ toks[i + 1] = "}"
         THEN Parsed(Obj(<<>>), i + 2)
         ELSE JsonMembers(toks, i + 1, <<>>)
    ELSE SyntaxError

JsonMembers(toks, i, acc) ==
    IF i + 1 <= Len(toks) /\ toks[i] \in StringLexemes /\ toks[i + 1] = ":"
    THEN JsonAfterMember(toks, toks[i], JsonValue(toks, i + 2), acc)
    ELSE SyntaxError

JsonAfterMember(toks, key, r, acc) ==
    IF ~r.ok \/ r.next > Len(toks) THEN SyntaxError
    ELSE IF toks[r.next] = "}"
    THEN Parsed(Obj(Append(acc, [key |-> key, value |-> r.value])), r.next + 1)
    ELSE IF toks[r.next] = ","
    THEN JsonMembers(toks, r.next + 1, Append(acc, [key |-> key, value |-> r.value]))
    ELSE SyntaxError

\* JSON.parse: the whole text must be one value.
JsonParseAll(toks, r) == IF r.ok /\ r.next = Len(toks) + 1 THEN r ELSE SyntaxError

JSONparse(toks) == JsonParseAll(toks, JsonValue(toks, 1))

parseJSONSafelyOf(r, fallback) == IF r.ok THEN r.value ELSE fallback

parseJSONSafely(jsonString, fallback) == parseJSONSafelyOf(JSONparse(jsonString), fallback)

\* {systolic: 0, diastolic: 0}
BpFallback ==
    Obj(<< [key |-> "\"systolic\"", value |-> Num(0)],
           [key |-> "\"diastolic\"", value |-> Num(0)] >>)

\* Reading a property of null or undefined throws a TypeError.
Throws(v) == v.k \in {"null", "undefined"}

\* v[name] of a value that does not throw; the last member of that name counts.
RECURSIVE MemberOf(_, _, _)
MemberOf(members, key, found) ==
    IF members = <<>> THEN found
    ELSE MemberOf(Tail(members), key,
                  IF Head(members).key = key THEN Head(members).value ELSE found)

Prop(v, key) == IF v.k = "obj" THEN MemberOf(v.members, key, Undefined) ELSE Undefined

bpOf(m) == parseJSONSafely(m.value, BpFallback)

bpChartPoint(m) ==
    [date |-> FormatMMMdd(m.date),
     systolic |-> Prop(bpOf(m), "\"systolic\""),
     diastolic |-> Prop(bpOf(m), "\"diastolic\"")]

AnyThrows(readings) == \E i \in 1..Len(readings) : Throws(bpOf(readings[i]))


----------------------------------------------------------------------------
(* Reports page *)

TimeRanges == {"week", "month", "3months", "6months", "year"}

calculateDateRange(range, t) ==
    [startDate |-> CASE range = "week" -> subDays(t, 7)
                     [] range = "month" -> subDays(t, 30)
                     [] range = "3months" -> subDays(t, 90)
                     [] range = "6months" -> subMonths(t, 6)
                     [] range = "year" -> subMonths(t, 12)
                     [] OTHER -> subDays(t, 30),
     endDate |-> t]

filterByDateRange(items, range) ==
    SelectSeq(items, LAMBDA item : item.date >= range.startDate /\ item.date <= range.endDate)

OfType(items, type) == SelectSeq(items, LAMBDA m : m.type = type)

\* x || 0
OrZero(x) == IF Truthy(x) THEN x ELSE Num(0)

weightSubScore(weightData, u) ==
    IF Len(weightData) > 0
    THEN MathMin(Num(100),
             JsSub(Num(100),
                 MathAbs(JsMul(JsDiv(JsSub(Last(weightData).weight, u.targetWeight),
                                     u.targetWeight),
                               Num(100)))))
    ELSE Num(0)

\* The exercise sub-score with a capacity of 60 minutes a day.
exerciseSubScoreHourly(filteredExercise) ==
    IF Len(filteredExercise) > 0
    THEN MathMin(Num(100),
             JsMul(JsDiv(Reduce(LAMBDA sum, log : JsAdd(sum, log.duration),
                                filteredExercise, Num(0)),
                         Num(7 * 60)),
                   Num(100)))
    ELSE Num(0)

exerciseSubScore(filteredExercise) ==
    IF Len(filteredExercise) > 0
    THEN MathMin(Num(100),
             JsMul(JsDiv(Reduce(LAMBDA sum, log : JsAdd(sum, log.duration),
                                filteredExercise, Num(0)),
                         Num(7 * 30)),
                   Num(100)))
    ELSE Num(0)

\* The sleep sub-score without its guard on an empty series.
sleepSubScoreUnguarded(sleepData, u) ==
    MathMin(Num(100),
        JsMul(JsDiv(Reduce(LAMBDA sum, day : JsAdd(sum, day.hours), sleepData, Num(0)),
                    JsMul(Num(Len(sleepData)), u.targetSleep)),
              Num(100)))

sleepSubScore(sleepData, u) ==
    IF Len(sleepData) > 0
    THEN MathMin(Num(100),
             JsMul(JsDiv(Reduce(LAMBDA sum, day : JsAdd(sum, day.hours), sleepData, Num(0)),
                         JsMul(Num(Len(sleepData)), u.targetSleep)),
                   Num(100)))
    ELSE Num(0)

nutritionSubScore(nutritionData, u) ==
    IF JsGt(nutritionData.protein, Num(0))
    THEN MathMin(Num(100),
             JsMul(JsDiv(nutritionData.protein, JsMul(Fin(12, 10), u.targetWeight)),
                   Num(100)))
    ELSE Num(0)

\* The chart points of the weight and sleep series.
weightPoint(m) == [date |-> FormatMMMdd(m.date), weight |-> parseFloat(m.value)]

reportSleepPoint(m) == [date |-> FormatMMMdd(m.date), hours |-> parseFloat(m.value)]

nutritionTotals(filteredMeals) ==
    Reduce(LAMBDA acc, meal :
               [calories |-> JsAdd(acc.calories, OrZero(meal.calories)),
                protein |-> JsAdd(acc.protein, OrZero(meal.protein)),
                carbs |-> JsAdd(acc.carbs, OrZero(meal.carbs)),
                fat |-> JsAdd(acc.fat, OrZero(meal.fat))],
           filteredMeals,
           [calories |-> Num(0), protein |-> Num(0), carbs |-> Num(0), fat |-> Num(0)])

\* Object.values(healthIndex), summed in the order the object lists them.
overallScore(healthIndex) ==
    Reduce(LAMBDA score, category : JsAdd(score, JsMul(category.value, category.weight)),
           <<healthIndex.weight, healthIndex.exercise, healthIndex.sleep,
             healthIndex.nutrition>>,
           Num(0))

ReportOf(weightData, nutritionData, sleepData, healthIndex) ==
    [weightData |-> weightData,
     nutritionData |-> nutritionData,
     sleepData |-> sleepData,
     healthIndex |-> healthIndex,
     overallHealthScore |-> MathRound(overallScore(healthIndex))]

ReportOfSeries(weightData, filteredExercise, nutritionData, sleepData, u) ==
    ReportOf(weightData, nutritionData, sleepData,
        [weight |-> [value |-> weightSubScore(weightData, u), weight |-> Fin(3, 10)],
         exercise |-> [value |-> exerciseSubScore(filteredExercise), weight |-> Fin(2, 10)],
         sleep |-> [value |-> sleepSubScore(sleepData, u), weight |-> Fin(2, 10)],
         nutrition |-> [value |-> nutritionSubScore(nutritionData, u), weight |-> Fin(3, 10)]])

ReportOfFiltered(filteredMetrics, filteredExercise, filteredMeals, u) ==
    ReportOfSeries(MapSeq(weightPoint, SortByDateAsc(OfType(filteredMetrics, "weight"))),
                   filteredExercise,
                   nutritionTotals(filteredMeals),
                   MapSeq(reportSleepPoint, SortByDateAsc(OfType(filteredMetrics, "sleep"))),
                   u)

\* type.charAt(0).toUpperCase() + type.slice(1), for the types in use
Capitalize(type) ==
    CASE type = "walking" -> "Walking"
      [] type = "running" -> "Running"
      [] type = "cycling" -> "Cycling"
      [] OTHER -> type

\* exerciseByType.set(log.type, current + log.duration); a Map keeps its keys
\* in insertion order.
exerciseByTypeSet(acc, log) ==
    IF \E i \in 1..Len(acc) : acc[i].type = log.type
    THEN [i \in 1..Len(acc) |->
            IF acc[i].type = log.type
            THEN [type |-> acc[i].type, minutes |-> JsAdd(acc[i].minutes, log.duration)]
            ELSE acc[i]]
    ELSE Append(acc, [type |-> log.type, minutes |-> JsAdd(Num(0), log.duration)])

exerciseTypeDataOf(filteredExercise) ==
    MapSeq(LAMBDA e : [type |-> Capitalize(e.type), minutes |-> e.minutes],
           Reduce(exerciseByTypeSet, filteredExercise, <<>>))

\* The reducer of caloriesBurnedData: the first item with the log's "MMM dd"
\* label gets the calories, or a new item is pushed.
caloriesBurnedStep(acc, log) ==
    IF \E i \in 1..Len(acc) : acc[i].date = FormatMMMdd(log.date)
    THEN [i \in 1..Len(acc) |->
            IF acc[i].date = FormatMMMdd(log.date)
               /\ \A j \in 1..(i - 1) : acc[j].date # FormatMMMdd(log.date)
            THEN [date |-> acc[i].date,
                  calories |-> JsAdd(acc[i].calories, OrZero(log.calories))]
            ELSE acc[i]]
    ELSE Append(acc, [date |-> FormatMMMdd(log.date), calories |-> OrZero(log.calories)])

caloriesBurnedDataOf(filteredExercise) ==
    Reduce(caloriesBurnedStep, SortByDateAsc(filteredExercise), <<>>)

\* bpData: the blood pressure readings in range, decoded.
bpDataOf(filteredMetrics) ==
    MapSeq(bpChartPoint, SortByDateAsc(OfType(filteredMetrics, "blood_pressure")))

macrosDistributionOf(nutritionData) ==
    << [name |-> "Protein", value |-> nutritionData.protein],
       [name |-> "Carbs", value |-> nutritionData.carbs],
       [name |-> "Fat", value |-> nutritionData.fat] >>

\* The series processData returns besides those the health index is made of.
OtherSeries(filteredMetrics, filteredExercise, nutritionData) ==
    [bpData |-> bpDataOf(filteredMetrics),
     exerciseTypeData |-> exerciseTypeDataOf(filteredExercise),
     caloriesBurnedData |-> caloriesBurnedDataOf(filteredExercise),
     macrosDistribution |-> macrosDistributionOf(nutritionData)]

\* processData throws when a blood pressure reading in range decodes to null.
ReportThrew == [threw |-> TRUE]

processFiltered(filteredMetrics, filteredExercise, filteredMeals, u) ==
    IF AnyThrows(OfType(filteredMetrics, "blood_pressure"))
    THEN ReportThrew
    ELSE ReportOfFiltered(filteredMetrics, filteredExercise, filteredMeals, u)
            @@ OtherSeries(filteredMetrics, filteredExercise,
                           nutritionTotals(filteredMeals))

\* processData of the Reports page, for the fetched records, the user, the
\* selected range and the current time.
processData(metrics, exercise, mealList, u, range, t) ==
    processFiltered(filterByDateRange(metrics, calculateDateRange(range, t)),
                    filterByDateRange(exercise, calculateDateRange(range, t)),
                    filterByDateRange(mealList, calculateDateRange(range, t)),
                    u)

\* The "Active Days" card: new Set(caloriesBurnedData.map(date)).size
activeDays(report) ==
    Cardinality({report.caloriesBurnedData[i].date :
                    i \in 1..Len(report.caloriesBurnedData)})

\* The records the Reports page can have fetched at time t.
WeightTexts == {<<"6", "0">>, <<"1", "3", "0">>}

SleepTexts == {<<"8">>, <<"7", ".", "5">>}

MetricInputs(t) ==
    [type : {"weight"}, value : WeightTexts, date : {subDays(t, 1)}]
        \cup [type : {"weight"}, value : {<<"1", "3", "0">>}, date : {subDays(t, 40)}]
        \cup [type : {"sleep"}, value : SleepTexts, date : {subDays(t, 1)}]

ExerciseInputs(t) ==
    [type : {"walking"}, duration : {Num(210)}, calories : {Null},
     date : {subDays(t, 1)}]

MealInputs(t) ==
    [calories : {Num(500)}, protein : {Num(72)}, carbs : {Num(50)}, fat : {Null},
     date : {subDays(t, 1)}]

\* targetWeight and targetSleep are nullable columns; PUT /api/user/:id stores
\* the body unvalidated.
UserInputs == [targetWeight : {Null, Num(0), Num(60)}, targetSleep : {Null, Num(8)}]

DecodeIdle == metric = Null /\ point = Null

SleepIdle == sleepView = Null

BpIdle == bpView = Null

ExerciseIdle == exerciseView = Null /\ dateParsing = ""

StoreIdle == storage = Null /\ response = Null /\ storeOps = 0

ClientIdle ==
    route = "" /\ queryCache = Null /\ fetching = {} /\ staleTime = "" /\ fetcher = Null

AppointmentsIdle == appointments = Null /\ groupedAppointments = Null

ExtraIdle == BpIdle /\ ExerciseIdle /\ StoreIdle /\ ClientIdle /\ AppointmentsIdle

\* The goals seedData puts in the store; the title, the dates and the icon of
\* a goal play no part in its progress and are left out.
SeededGoals ==
    << [id |-> 1, category |-> "weight", target |-> <<"6", "0">>,
        currentValue |-> <<"6", "5", ".", "4">>, completed |-> FALSE,
        progress |-> Num(65)],
       [id |-> 2, category |-> "exercise", target |-> <<"5">>,
        currentValue |-> <<"4">>, completed |-> FALSE, progress |-> Num(80)],
       [id |-> 3, category |-> "hydration", target |-> <<"2", ".", "5">>,
        currentValue |-> <<"1", ".", "5">>, completed |-> FALSE,
        progress |-> Num(60)] >>

GoalsIdle ==
    /\ goals = SeededGoals
    /\ goalId = Len(SeededGoals) + 1
    /\ goalsData = [isLoading |-> TRUE, data |-> <<>>]
    /\ finalData = Null
    /\ goalOps = 0

RecordsInit ==
    /\ user \in UserInputs
    /\ healthMetrics \in SeqsUpTo(MetricInputs(now), MaxMetrics)
    /\ exerciseLogs \in SeqsUpTo(ExerciseInputs(now), MaxExercise)
    /\ meals \in SeqsUpTo(MealInputs(now), MaxMeals)

InitReports ==
    /\ now = Today * TicksPerDay + 1
    /\ RecordsInit
    /\ timeRange = "month"
    /\ reportData = Null
    /\ DecodeIdle
    /\ SleepIdle
    /\ GoalsIdle
    /\ ExtraIdle

\* The three queries have resolved, or the page renders again: processData runs.
RenderReports ==
    /\ reportData' = processData(healthMetrics, exerciseLogs, meals, user, timeRange, now)
    /\ UNCHANGED <<now, recordVars, timeRange, reportsRest>>

\* The user picks a time range; the page renders again when it has its data.
SetTimeRange(range) ==
    /\ timeRange' = range
    /\ reportData' = IF reportData = Null THEN Null
                     ELSE processData(healthMetrics, exerciseLogs, meals, user, range, now)
    /\ UNCHANGED <<now, recordVars, reportsRest>>

NextReports ==
    \/ RenderReports
    \/ \E range \in TimeRanges : SetTimeRange(range)

SpecReports == InitReports /\ [][NextReports]_vars

(* C1: whatever the in-range records and the targets, the overallHealthScore   *)
(* processData returns is an integer between 0 and 100.                        *)
C1_ScoreIsIntegerIn0To100 ==
    reportData # Null =>
        /\ IsInteger(reportData.overallHealthScore)
        /\ reportData.overallHealthScore.n \in 0..100

(* C2: a sub-score whose divisor target (targetWeight for weight and nutrition, *)
(* targetSleep for sleep) is unset or zero is exactly 0.                        *)
C2_UnsetTargetGivesZero ==
    reportData # Null =>
        /\ ~Truthy(user.targetWeight) =>
               /\ reportData.healthIndex.weight.value = Num(0)
               /\ reportData.healthIndex.nutrition.value = Num(0)
        /\ ~Truthy(user.targetSleep) => reportData.healthIndex.sleep.value = Num(0)

Clamp0To100(x) ==
    IF JsLt(x, Num(0)) THEN Num(0) ELSE IF JsGt(x, Num(100)) THEN Num(100) ELSE x

\* The positions of the fetched weight metrics dated within the selected range.
InRangeWeights ==
    {i \in 1..Len(healthMetrics) :
        /\ healthMetrics[i].type = "weight"
        /\ healthMetrics[i].date >= calculateDateRange(timeRange, now).startDate
        /\ healthMetrics[i].date <= now}

(* C3: for a positive targetWeight the weight sub-score is 100 minus the        *)
(* absolute percentage deviation of the latest in-range weight from the target, *)
(* floored at 0 and capped at 100, and 0 when no weight record is in range.     *)
C3_WeightSubScoreClamped ==
    (reportData # Null /\ JsGt(user.targetWeight, Num(0))) =>
        IF InRangeWeights = {}
        THEN reportData.healthIndex.weight.value = Num(0)
        ELSE \E i \in InRangeWeights :
                /\ \A j \in InRangeWeights : healthMetrics[j].date <= healthMetrics[i].date
                /\ reportData.healthIndex.weight.value =
                       Clamp0To100(JsSub(Num(100),
                           JsMul(JsDiv(MathAbs(JsSub(parseFloat(healthMetrics[i].value),
                                                     user.targetWeight)),
                                       user.targetWeight),
                                 Num(100))))

----------------------------------------------------------------------------
(* Decoding of HealthMetric.value at the call sites that chart or average it *)

\* health-metrics page, getMetricsForType for a type other than blood_pressure
metricPoint(m) == [date |-> FormatMMMdd(m.date), value |-> parseFloat(m.value)]

\* sleep page, lastWeekSleep
lastWeekPoint(m, u) ==
    [date |-> FormatMMMdd(m.date),
     hours |-> parseFloat(m.value),
     target |-> IF Truthy(u.targetSleep) THEN u.targetSleep ELSE Num(8)]

Alphabet == {"7", "5", ".", "h", "-", " "}

NumericTypes == {"weight", "heart_rate", "sleep"}

SeededUser == [targetWeight |-> Num(60), targetSleep |-> Num(8)]

RecordsIdle ==
    /\ user = SeededUser
    /\ healthMetrics = <<>>
    /\ exerciseLogs = <<>>
    /\ meals = <<>>

ReportsIdle == timeRange = "month" /\ reportData = Null

InitDecode ==
    /\ now = Today * TicksPerDay + 1
    /\ metric \in [type : NumericTypes, value : SeqsUpTo(Alphabet, MaxTextLen),
                    date : {subDays(now, 1)}]
    /\ point = Null
    /\ RecordsIdle
    /\ ReportsIdle
    /\ SleepIdle
    /\ GoalsIdle
    /\ ExtraIdle

GetMetricsForTypePoint ==
    /\ metric.type # "blood_pressure"
    /\ point' = metricPoint(metric)
    /\ UNCHANGED <<now, metric, decodeRest>>

ReportsWeightPoint ==
    /\ metric.type = "weight"
    /\ point' = weightPoint(metric)
    /\ UNCHANGED <<now, metric, decodeRest>>

ReportsSleepPoint ==
    /\ metric.type = "sleep"
    /\ point' = reportSleepPoint(metric)
    /\ UNCHANGED <<now, metric, decodeRest>>

SleepPagePoint ==
    /\ metric.type = "sleep"
    /\ point' = lastWeekPoint(metric, user)
    /\ UNCHANGED <<now, metric, decodeRest>>

NextDecode ==
    \/ GetMetricsForTypePoint
    \/ ReportsWeightPoint
    \/ ReportsSleepPoint
    \/ SleepPagePoint

SpecDecode == InitDecode /\ [][NextDecode]_vars

\* The number a chart point carries.
PointValue(p) ==
    IF "weight" \in DOMAIN p THEN p.weight
    ELSE IF "hours" \in DOMAIN p THEN p.hours
    ELSE p.value

RECURSIVE TrimEnd(_)
TrimEnd(s) == IF s # <<>> /\ s[Len(s)] = " " THEN TrimEnd(SubSeq(s, 1, Len(s) - 1)) ELSE s

Unsigned(s) == IF s # <<>> /\ Head(s) \in {"-", "+"} THEN Tail(s) ELSE s

\* u is digits, optionally followed by a point and digits, or a point and digits.
IsDecimal(u) ==
    \/ /\ DigitRun(u) > 0
       /\ \/ DigitRun(u) = Len(u)
          \/ /\ u[DigitRun(u) + 1] = "."
             /\ DigitRun(SubSeq(u, DigitRun(u) + 2, Len(u))) = Len(u) - DigitRun(u) - 1
    \/ /\ Len(u) >= 2
       /\ Head(u) = "."
       /\ DigitRun(Tail(u)) = Len(u) - 1

\* The whole text, white space around it aside, is one signed decimal number.
IsNumericText(s) == IsDecimal(Unsigned(TrimEnd(TrimStart(s))))

(* C10: a malformed value text (empty, not a number, or a number followed by  *)
(* other characters) never decodes to a number that is charted or averaged:    *)
(* the point made of it carries the failure value NaN.                         *)
C10_MalformedNeverNumeric ==
    (point # Null /\ ~IsNumericText(metric.value)) => isNaN(PointValue(point))

----------------------------------------------------------------------------
(* Sleep page *)

MaxSleepEntries == 2

\* Number.prototype.toFixed(1): the nearest tenth, a tie away from zero; NaN
\* and the infinities print as themselves.
ToFixed1(a0) ==
    LET a == ToNumber(a0)
    IN  IF a.k # "num" THEN a
        ELSE Fin(Sign(a) * ((20 * AbsInt(a.n) + a.d) \div (2 * a.d)), 10)

\* The text a card shows when it has nothing to average.
NoData == [k |-> "No data", n |-> 0, d |-> 1]

MonthYear(c) == [m |-> c.m, y |-> c.y]

FormatMMMyyyy(t) == MonthYear(CivilFromDays(DayOf(t)))

FormatMMMddyyyy(t) == CivilFromDays(DayOf(t))

\* chartQuality with each boundary given to the bucket below it.
chartQualityInclusive(hours) ==
    IF JsLe(hours, Num(6)) THEN "Poor (<6h)"
    ELSE IF JsLe(hours, Num(7)) THEN "Fair (6-7h)"
    ELSE IF JsLe(hours, Num(8)) THEN "Good (7-8h)"
    ELSE "Excellent (>8h)"

\* tableQuality with each boundary given to the bucket below it.
tableQualityInclusive(hours) ==
    IF JsLe(hours, Num(6)) THEN "Poor"
    ELSE IF JsLe(hours, Num(7)) THEN "Fair"
    ELSE IF JsLe(hours, Num(8)) THEN "Good"
    ELSE "Excellent"

\* The chart's bucket of an entry.
chartQuality(hours) ==
    IF JsLt(hours, Num(6)) THEN "Poor (<6h)"
    ELSE IF JsLt(hours, Num(7)) THEN "Fair (6-7h)"
    ELSE IF JsLt(hours, Num(8)) THEN "Good (7-8h)"
    ELSE "Excellent (>8h)"

\* The history table's bucket of an entry.
tableQuality(hours) ==
    IF JsLt(hours, Num(6)) THEN "Poor"
    ELSE IF JsLt(hours, Num(7)) THEN "Fair"
    ELSE IF JsLt(hours, Num(8)) THEN "Good"
    ELSE "Excellent"

\* monthlyData.set(monthYear, {total + hours, count + 1}); a Map keeps its keys
\* in insertion order.
monthlyDataSet(acc, m) ==
    IF \E i \in 1..Len(acc) : acc[i].month = FormatMMMyyyy(m.date)
    THEN [i \in 1..Len(acc) |->
            IF acc[i].month = FormatMMMyyyy(m.date)
            THEN [month |-> acc[i].month,
                  total |-> JsAdd(acc[i].total, parseFloat(m.value)),
                  count |-> acc[i].count + 1]
            ELSE acc[i]]
    ELSE Append(acc, [month |-> FormatMMMyyyy(m.date),
                      total |-> JsAdd(Num(0), parseFloat(m.value)),
                      count |-> 1])

\* Array.prototype.slice(-n)
SliceLast(s, n) == IF Len(s) <= n THEN s ELSE SubSeq(s, Len(s) - n + 1, Len(s))

monthlyAverageOf(sortedMetrics) ==
    SliceLast(MapSeq(LAMBDA e : [month |-> e.month,
                                 average |-> JsDiv(e.total, Num(e.count))],
                     Reduce(monthlyDataSet, sortedMetrics, <<>>)),
              6)

\* qualityMap.set(quality, (qualityMap.get(quality) || 0) + 1)
qualityMapSet(acc, m) ==
    IF \E i \in 1..Len(acc) : acc[i].quality = chartQuality(parseFloat(m.value))
    THEN [i \in 1..Len(acc) |->
            IF acc[i].quality = chartQuality(parseFloat(m.value))
            THEN [quality |-> acc[i].quality, count |-> acc[i].count + 1]
            ELSE acc[i]]
    ELSE Append(acc, [quality |-> chartQuality(parseFloat(m.value)), count |-> 1])

lastWeekSleepOf(sortedMetrics, u, t) ==
    MapSeq(LAMBDA m : lastWeekPoint(m, u),
           SelectSeq(sortedMetrics, LAMBDA m : m.date >= subDays(t, 7)))

processSleepSorted(sortedMetrics, u, t) ==
    [lastWeekSleep |-> lastWeekSleepOf(sortedMetrics, u, t),
     monthlyAverage |-> monthlyAverageOf(sortedMetrics),
     qualityDistribution |-> Reduce(qualityMapSet, sortedMetrics, <<>>)]

processSleepData(sleepMetrics, u, t) ==
    processSleepSorted(SortByDateAsc(sleepMetrics), u, t)

\* The "Last Night" card: the first fetched entry.
lastNightCard(sleepMetrics, u) ==
    IF Len(sleepMetrics) > 0
    THEN [hours |-> ToFixed1(parseFloat(sleepMetrics[1].value)),
          achieved |-> JsGe(parseFloat(sleepMetrics[1].value),
                            IF Truthy(u.targetSleep) THEN u.targetSleep ELSE Num(8))]
    ELSE [hours |-> NoData, achieved |-> FALSE]

\* The "Weekly Average" card.
weeklyAverageCard(lastWeekSleep) ==
    IF Len(lastWeekSleep) > 0
    THEN ToFixed1(JsDiv(Reduce(LAMBDA sum, day : JsAdd(sum, day.hours),
                               lastWeekSleep, Num(0)),
                        Num(Len(lastWeekSleep))))
    ELSE NoData

\* A row of the history table, in the order the entries were fetched.
historyRow(m) ==
    [date |-> FormatMMMddyyyy(m.date),
     duration |-> ToFixed1(parseFloat(m.value)),
     quality |-> tableQuality(parseFloat(m.value))]

sleepPageOf(sleepMetrics, u, processed) ==
    [sleepMetrics |-> sleepMetrics,
     lastWeekSleep |-> processed.lastWeekSleep,
     monthlyAverage |-> processed.monthlyAverage,
     qualityDistribution |-> processed.qualityDistribution,
     lastNight |-> lastNightCard(sleepMetrics, u),
     weeklyAverage |-> weeklyAverageCard(processed.lastWeekSleep),
     history |-> MapSeq(historyRow, sleepMetrics)]

\* The page once GET /api/health-metrics/:userId?type=sleep has resolved.
sleepPage(metrics, u, t) ==
    sleepPageOf(OfType(metrics, "sleep"), u, processSleepData(OfType(metrics, "sleep"), u, t))

SleepValueTexts ==
    {<<"5", ".", "9", "9">>, <<"6", ".", "0">>, <<"7", ".", "0">>,
     <<"7", ".", "9", "9">>, <<"8", ".", "0">>}

\* The dates an entry can carry: today, tomorrow, six days ago, and the first
\* and the last moment of the day seven days ago.
SleepDates(t) ==
    {DayOf(t) * TicksPerDay,
     (DayOf(t) + 1) * TicksPerDay,
     (DayOf(t) - 6) * TicksPerDay,
     (DayOf(t) - 7) * TicksPerDay,
     (DayOf(t) - 7) * TicksPerDay + (TicksPerDay - 1)}

SleepInputs(t) ==
    [type : {"sleep"}, value : SleepValueTexts, date : {DayOf(t) * TicksPerDay}]
        \cup [type : {"sleep"}, value : {<<"8", ".", "0">>}, date : SleepDates(t)]
        \cup [type : {"weight"}, value : {<<"6", "0">>}, date : {DayOf(t) * TicksPerDay}]

InitSleep ==
    /\ now \in {Today * TicksPerDay, Today * TicksPerDay + (TicksPerDay - 1)}
    /\ user = SeededUser
    /\ healthMetrics \in SeqsUpTo(SleepInputs(now), MaxSleepEntries)
    /\ exerciseLogs = <<>>
    /\ meals = <<>>
    /\ sleepView = Null
    /\ DecodeIdle
    /\ ReportsIdle
    /\ GoalsIdle
    /\ ExtraIdle

\* The sleep query has resolved, or the page renders again.
RenderSleep ==
    /\ sleepView' = sleepPage(healthMetrics, user, now)
    /\ UNCHANGED <<now, recordVars, sleepRest>>

\* The "Log Sleep" form is submitted: POST /api/health-metrics stores the entry,
\* the sleep query is invalidated and the page renders the refetched entries.
LogSleep(value, date) ==
    /\ Len(healthMetrics) < MaxSleepEntries
    /\ healthMetrics' = Append(healthMetrics,
                               [type |-> "sleep", value |-> value, date |-> date])
    /\ sleepView' = sleepPage(healthMetrics', user, now)
    /\ UNCHANGED <<now, user, exerciseLogs, meals, sleepRest>>

\* The form's date is the moment the page was opened unless a day is picked,
\* and a picked day is that day's first moment.
FormDates(t) == {d \in SleepDates(t) : TimeOfDay(d) = 0} \cup {t}

NextSleep ==
    \/ RenderSleep
    \/ \E value \in SleepValueTexts, date \in FormDates(now) : LogSleep(value, date)

SpecSleep == InitSleep /\ [][NextSleep]_vars

\* The buckets, and the label the chart gives each.
Buckets == {"Poor", "Fair", "Good", "Excellent"}

ChartLabel(b) ==
    CASE b = "Poor" -> "Poor (<6h)"
      [] b = "Fair" -> "Fair (6-7h)"
      [] b = "Good" -> "Good (7-8h)"
      [] b = "Excellent" -> "Excellent (>8h)"

\* Entry i of the rendered page is shown in bucket b by the table and the chart
\* has a slice for b.
ShownIn(view, i, b) ==
    /\ view.history[i].quality = b
    /\ \E j \in 1..Len(view.qualityDistribution) :
          /\ view.qualityDistribution[j].quality = ChartLabel(b)
          /\ view.qualityDistribution[j].count >= 1

EntriesWith(view, text) ==
    {i \in 1..Len(view.sleepMetrics) : view.sleepMetrics[i].value = text}

(* C7 as stated: an entry of 5.99 h is shown as Poor, one of 6.0 h as Fair,   *)
(* one of 7.99 h as Fair and one of 8.0 h as Excellent.                        *)
C7_BoundaryBucketsAsStated ==
    sleepView # Null =>
        /\ \A i \in EntriesWith(sleepView, <<"5", ".", "9", "9">>) : ShownIn(sleepView, i, "Poor")
        /\ \A i \in EntriesWith(sleepView, <<"6", ".", "0">>) : ShownIn(sleepView, i, "Fair")
        /\ \A i \in EntriesWith(sleepView, <<"7", ".", "9", "9">>) : ShownIn(sleepView, i, "Fair")
        /\ \A i \in EntriesWith(sleepView, <<"8", ".", "0">>) : ShownIn(sleepView, i, "Excellent")

(* C7 amended: an entry of 5.99 h is shown as Poor, one of 6.0 h as Fair, one *)
(* of 7.99 h as Good and one of 8.0 h as Excellent.                            *)
C7_BoundaryBuckets ==
    sleepView # Null =>
        /\ \A i \in EntriesWith(sleepView, <<"5", ".", "9", "9">>) : ShownIn(sleepView, i, "Poor")
        /\ \A i \in EntriesWith(sleepView, <<"6", ".", "0">>) : ShownIn(sleepView, i, "Fair")
        /\ \A i \in EntriesWith(sleepView, <<"7", ".", "9", "9">>) : ShownIn(sleepView, i, "Good")
        /\ \A i \in EntriesWith(sleepView, <<"8", ".", "0">>) : ShownIn(sleepView, i, "Excellent")

\* A page showing an entry of 7.99 h next to one of 6.0 h.
C7_Witness ==
    /\ sleepView # Null
    /\ EntriesWith(sleepView, <<"7", ".", "9", "9">>) # {}
    /\ EntriesWith(sleepView, <<"6", ".", "0">>) # {}

\* The bucket the thresholds give a duration of n/d hours.
ThresholdBucket(h) ==
    IF h.n < 6 * h.d THEN "Poor"
    ELSE IF h.n < 7 * h.d THEN "Fair"
    ELSE IF h.n < 8 * h.d THEN "Good"
    ELSE "Excellent"

TableCount(view, b) ==
    Cardinality({i \in 1..Len(view.history) : view.history[i].quality = b})

ChartCount(view, b) ==
    Reduce(LAMBDA acc, e : IF e.quality = ChartLabel(b) THEN acc + e.count ELSE acc,
           view.qualityDistribution, 0)

(* C8: the chart and the history table put every entry in the same bucket,     *)
(* that bucket is Poor below 6 h, Fair from 6 h to below 7 h, Good from 7 h to *)
(* below 8 h and Excellent from 8 h on, and the chart's counts add up to the   *)
(* number of entries.                                                          *)
C8_ClassifiersAgree ==
    sleepView # Null =>
        /\ \A b \in Buckets : ChartCount(sleepView, b) = TableCount(sleepView, b)
        /\ \A i \in 1..Len(sleepView.sleepMetrics) :
              parseFloat(sleepView.sleepMetrics[i].value).k = "num" =>
                  sleepView.history[i].quality
                      = ThresholdBucket(parseFloat(sleepView.sleepMetrics[i].value))
        /\ \A j \in 1..Len(sleepView.qualityDistribution) :
              sleepView.qualityDistribution[j].quality \in {ChartLabel(b) : b \in Buckets}
        /\ Reduce(LAMBDA acc, e : acc + e.count, sleepView.qualityDistribution, 0)
              = Len(sleepView.sleepMetrics)

\* A page showing two entries that fall in different buckets.
C8_Witness ==
    /\ sleepView # Null
    /\ Len(sleepView.sleepMetrics) = 2
    /\ Len(sleepView.qualityDistribution) = 2

\* The entries dated on one of the seven calendar days that end with today.
LastSevenCalendarDays(entries, t) ==
    SelectSeq(entries, LAMBDA m : /\ DayOf(m.date) >= DayOf(t) - 6
                                  /\ DayOf(m.date) <= DayOf(t))

MeanHours(entries) ==
    IF Len(entries) = 0 THEN NoData
    ELSE ToFixed1(JsDiv(Reduce(LAMBDA sum, m : JsAdd(sum, parseFloat(m.value)),
                               entries, Num(0)),
                        Num(Len(entries))))

(* C9: the weekly average shown is the mean of exactly the sleep entries dated *)
(* on the last seven calendar days, today included: an entry of the eighth     *)
(* earlier day or of a later day is not counted.                               *)
C9_WeeklyAverageOfLastSevenDays ==
    sleepView # Null =>
        sleepView.weeklyAverage
            = MeanHours(LastSevenCalendarDays(sleepView.sleepMetrics, now))

----------------------------------------------------------------------------
(* Goals page, the /api/goals routes and the goals of MemStorage *)

MaxGoalOps == 2

\* String(x) of a number whose decimal expansion ends.
RECURSIVE IntText(_)
IntText(n) == IF n < 10 THEN <<ToString(n)>> ELSE IntText(n \div 10) \o <<ToString(n % 10)>>

RECURSIVE FracText(_, _)
FracText(f, places) ==
    IF places = 0 THEN <<>> ELSE FracText(f \div 10, places - 1) \o <<ToString(f % 10)>>

RECURSIVE DecimalPlaces(_, _)
DecimalPlaces(d, places) ==
    IF Pow10(places) % d = 0 THEN places ELSE DecimalPlaces(d, places + 1)

DecimalText(neg, scaled, places) ==
    (IF neg THEN <<"-">> ELSE <<>>)
        \o IntText(scaled \div Pow10(places))
        \o (IF places = 0 THEN <<>>
            ELSE <<".">> \o FracText(scaled % Pow10(places), places))

FiniteText(a, places) ==
    DecimalText(a.n < 0, (AbsInt(a.n) * Pow10(places)) \div a.d, places)

NumberToString(a) ==
    IF a.k = "nan" THEN <<"N", "a", "N">>
    ELSE IF a.k = "inf"
    THEN (IF a.n < 0 THEN <<"-">> ELSE <<>>) \o <<"I", "n", "f", "i", "n", "i", "t", "y">>
    ELSE FiniteText(a, DecimalPlaces(a.d, 0))

\* calculatedProgress of a weight goal, from weightDiff and progressDiff
weightRatio(weightDiff, progressDiff) ==
    IF JsGt(weightDiff, Num(0))
    THEN MathMin(Num(100), JsMul(JsDiv(progressDiff, weightDiff), Num(100)))
    ELSE Num(0)

weightDiffs(initialWeight, targetWeight, current) ==
    weightRatio(JsSub(initialWeight, targetWeight), JsSub(initialWeight, current))

\* initialWeight is the number current or the text data.target, targetWeight
\* the number target or the number current; parseFloat reads each as text.
weightProgress(current, target, targetText) ==
    IF JsLt(target, current)
    THEN weightDiffs(parseFloat(NumberToString(current)),
                     parseFloat(NumberToString(target)), current)
    ELSE weightDiffs(parseFloat(targetText),
                     parseFloat(NumberToString(current)), current)

progressOf(category, current, target, targetText) ==
    IF ~isNaN(current) /\ ~isNaN(target) /\ target # Num(0)
    THEN IF category = "weight"
         THEN weightProgress(current, target, targetText)
         ELSE MathMin(Num(100), JsMul(JsDiv(current, target), Num(100)))
    ELSE Num(0)

\* calculatedProgress as onSubmit computes it from the form's data
calculatedProgress(data) ==
    progressOf(data.category, parseFloat(data.currentValue), parseFloat(data.target),
               data.target)

\* What onSubmit sends: the form's data with the rounded progress.
finalDataOf(data) ==
    [category |-> data.category, target |-> data.target,
     currentValue |-> data.currentValue, completed |-> data.completed,
     progress |-> MathRound(calculatedProgress(data))]

\* goalSchema, which the form's resolver applies before onSubmit runs.
goalSchema(data) ==
    /\ data.category # ""
    /\ Len(data.target) >= 1
    /\ Len(data.currentValue) >= 1
    /\ data.progress.k = "num"
    /\ JsGe(data.progress, Num(0))
    /\ JsLe(data.progress, Num(100))

\* What the "Add Goal" dialog starts from.
defaultValues ==
    [category |-> "weight", target |-> <<>>, currentValue |-> <<>>,
     completed |-> FALSE, progress |-> Num(0)]

\* The form after form.reset(goal) and the user's typing: the category, the
\* current value and the target are typed, the rest is the goal's.
formData(goal, category, currentValue, target) ==
    [category |-> category, target |-> target, currentValue |-> currentValue,
     completed |-> goal.completed, progress |-> goal.progress]

GoalCategories == {"weight", "exercise"}

CurrentTexts == {<<"7", "0">>, <<"6", "5">>, <<"6", "0">>, <<"-", "5">>, <<"x">>}

TargetTexts == {<<"6", "0">>, <<"0">>}

\* MemStorage.getGoals: the single user owns every goal.
getGoals(store) == store

\* What useQuery holds once GET /api/goals/:userId has answered.
Fetched(list) == [isLoading |-> FALSE, data |-> list]

\* MemStorage.createGoal
createGoal(store, id, goalData) ==
    Append(store, [id |-> id, category |-> goalData.category,
                   target |-> goalData.target, currentValue |-> goalData.currentValue,
                   completed |-> goalData.completed, progress |-> goalData.progress])

HasGoal(store, id) == \E i \in 1..Len(store) : store[i].id = id

\* MemStorage.updateGoal: {...goal, ...goalData} under the same key
updateGoal(store, id, goalData) ==
    [i \in 1..Len(store) |->
        IF store[i].id = id
        THEN [id |-> id, category |-> goalData.category, target |-> goalData.target,
              currentValue |-> goalData.currentValue,
              completed |-> goalData.completed, progress |-> goalData.progress]
        ELSE store[i]]

\* MemStorage.deleteGoal
deleteGoalOf(store, id) == SelectSeq(store, LAMBDA g : g.id # id)

InitGoals ==
    /\ now = Today * TicksPerDay + 1
    /\ GoalsIdle
    /\ DecodeIdle
    /\ RecordsIdle
    /\ ReportsIdle
    /\ SleepIdle
    /\ ExtraIdle

\* The goals query resolves.
FetchGoals ==
    /\ goalsData.isLoading
    /\ goalsData' = Fetched(getGoals(goals))
    /\ UNCHANGED <<now, goals, goalId, finalData, goalOps, goalsRest>>

\* "Add Goal" is filled in and submitted.  Whether insertGoalSchema admits the
\* body as it arrives is decided outside this source: both outcomes are taken.
\* A refused request throws, and the query is not invalidated.
SubmitNewGoal(category, currentValue, target, admitted) ==
    /\ goalOps < MaxGoalOps
    /\ goalOps' = goalOps + 1
    /\ goalSchema(formData(defaultValues, category, currentValue, target))
    /\ finalData' = finalDataOf(formData(defaultValues, category, currentValue, target))
    /\ IF admitted
       THEN /\ goals' = createGoal(goals, goalId, finalData')
            /\ goalId' = goalId + 1
            /\ goalsData' = Fetched(getGoals(goals'))
       ELSE UNCHANGED <<goals, goalId, goalsData>>
    /\ UNCHANGED <<now, goalsRest>>

\* A listed goal is opened for editing, changed and submitted.
SubmitEditedGoal(i, category, currentValue, target) ==
    /\ goalOps < MaxGoalOps
    /\ ~goalsData.isLoading
    /\ i \in 1..Len(goalsData.data)
    /\ goalSchema(formData(goalsData.data[i], category, currentValue, target))
    /\ goalOps' = goalOps + 1
    /\ finalData' = finalDataOf(formData(goalsData.data[i], category, currentValue, target))
    /\ IF HasGoal(goals, goalsData.data[i].id)
       THEN /\ goals' = updateGoal(goals, goalsData.data[i].id, finalData')
            /\ goalsData' = Fetched(getGoals(goals'))
       ELSE UNCHANGED <<goals, goalsData>>
    /\ UNCHANGED <<now, goalId, goalsRest>>

\* The check mark of a listed goal is clicked.
completeGoal(i) ==
    /\ goalOps < MaxGoalOps
    /\ ~goalsData.isLoading
    /\ i \in 1..Len(goalsData.data)
    /\ goalOps' = goalOps + 1
    /\ IF HasGoal(goals, goalsData.data[i].id)
       THEN /\ goals' = updateGoal(goals, goalsData.data[i].id,
                            [goalsData.data[i] EXCEPT
                                !.completed = ~goalsData.data[i].completed,
                                !.progress = IF goalsData.data[i].completed
                                             THEN goalsData.data[i].progress
                                             ELSE Num(100)])
            /\ goalsData' = Fetched(getGoals(goals'))
       ELSE UNCHANGED <<goals, goalsData>>
    /\ UNCHANGED <<now, goalId, finalData, goalsRest>>

\* A listed goal is deleted and the deletion confirmed.
deleteGoal(i) ==
    /\ goalOps < MaxGoalOps
    /\ ~goalsData.isLoading
    /\ i \in 1..Len(goalsData.data)
    /\ goalOps' = goalOps + 1
    /\ IF HasGoal(goals, goalsData.data[i].id)
       THEN /\ goals' = deleteGoalOf(goals, goalsData.data[i].id)
            /\ goalsData' = Fetched(getGoals(goals'))
       ELSE UNCHANGED <<goals, goalsData>>
    /\ UNCHANGED <<now, goalId, finalData, goalsRest>>

NextGoals ==
    \/ FetchGoals
    \/ \E category \in GoalCategories, currentValue \in CurrentTexts,
          target \in TargetTexts, admitted \in BOOLEAN :
            SubmitNewGoal(category, currentValue, target, admitted)
    \/ \E i \in 1..(Len(SeededGoals) + MaxGoalOps), category \in GoalCategories,
          currentValue \in CurrentTexts, target \in TargetTexts :
            SubmitEditedGoal(i, category, currentValue, target)
    \/ \E i \in 1..(Len(SeededGoals) + MaxGoalOps) : completeGoal(i)
    \/ \E i \in 1..(Len(SeededGoals) + MaxGoalOps) : deleteGoal(i)

SpecGoals == InitGoals /\ [][NextGoals]_vars

InRange0To100(p) == IsInteger(p) /\ p.n \in 0..100

(* C4: whatever the category and whatever the texts of the current value and *)
(* the target (negative, zero and non-numeric ones included), the progress    *)
(* onSubmit sends is an integer between 0 and 100.                            *)
C4_SubmittedProgressIn0To100 ==
    finalData # Null => InRange0To100(finalData.progress)

WeightGoalAt(data, currentValue) ==
    /\ data.category = "weight"
    /\ data.target = <<"6", "0">>
    /\ data.currentValue = currentValue

(* C5: a weight goal with target 60 submitted at the current value 70 gets    *)
(* progress 0, submitted at 65 progress 50, and submitted at 60 progress 100. *)
C5_WeightGoalProgress ==
    finalData # Null =>
        /\ WeightGoalAt(finalData, <<"7", "0">>) => finalData.progress = Num(0)
        /\ WeightGoalAt(finalData, <<"6", "5">>) => finalData.progress = Num(50)
        /\ WeightGoalAt(finalData, <<"6", "0">>) => finalData.progress = Num(100)

(* C6: after any sequence of operations of the goals page on the seeded store *)
(* every stored goal has a progress between 0 and 100.                         *)
C6_StoredProgressIn0To100 ==
    \A i \in 1..Len(goals) :
        /\ goals[i].progress.k = "num"
        /\ JsGe(goals[i].progress, Num(0))
        /\ JsLe(goals[i].progress, Num(100))

----------------------------------------------------------------------------
(* Blood pressure readings: parseJSONSafely and the places that show them.   *)
(* A JSON text is a sequence of lexemes; the texts here hold no array, no    *)
(* boolean and no number other than a natural one.                           *)

MaxBpReadings == 2

\* The two numbers a place shows for the decoded value bp.
bpShown(bp) ==
    [systolic |-> Prop(bp, "\"systolic\""), diastolic |-> Prop(bp, "\"diastolic\"")]

NotAvailable == [systolic |-> Undefined, diastolic |-> Undefined, text |-> "N/A"]

\* Array.prototype.sort by descending date; the sort is stable.
RECURSIVE InsertByDateDesc(_, _)
InsertByDateDesc(x, s) ==
    IF s = <<>> THEN <<x>>
    ELSE IF s[Len(s)].date >= x.date THEN Append(s, x)
    ELSE Append(InsertByDateDesc(x, SubSeq(s, 1, Len(s) - 1)), s[Len(s)])

SortByDateDesc(s) == Reduce(LAMBDA acc, x : InsertByDateDesc(x, acc), s, <<>>)

\* The first n elements: Array.prototype.slice(0, n)
SliceFirst(s, n) == IF Len(s) <= n THEN s ELSE SubSeq(s, 1, n)

\* getLatestMetric(type): the filtered metrics sorted by descending date.
latestFirst(metrics, type) == SortByDateDesc(OfType(metrics, type))

\* What a page shows of the readings: whether rendering threw, the chart's
\* points, the card's value and the trend printed next to it.
bpRendered(page, chart, card, trend) ==
    [page |-> page, raised |-> FALSE, chart |-> chart, card |-> card, trend |-> trend]

bpCrashed(page) ==
    [page |-> page, raised |-> TRUE, chart |-> <<>>, card |-> NotAvailable, trend |-> ""]

bpCard(latest) == IF latest = <<>> THEN NotAvailable ELSE bpShown(bpOf(latest[1]))

\* Health Metrics page: the chart series, the Blood Pressure card.
healthMetricsPageBp(metrics) ==
    IF AnyThrows(OfType(metrics, "blood_pressure")) THEN bpCrashed("health-metrics")
    ELSE bpRendered("health-metrics",
                    MapSeq(bpChartPoint, SortByDateAsc(OfType(metrics, "blood_pressure"))),
                    bpCard(latestFirst(metrics, "blood_pressure")),
                    "Stable")

\* Dashboard: the bloodPressure entry of MetricsGrid.
dashboardBp(metrics) ==
    IF AnyThrows(SliceFirst(latestFirst(metrics, "blood_pressure"), 1))
    THEN bpCrashed("dashboard")
    ELSE bpRendered("dashboard", <<>>, bpCard(latestFirst(metrics, "blood_pressure")),
                    "Stable")

\* Reports: bpData of processData.
reportsBp(metrics, range, t) ==
    IF AnyThrows(OfType(filterByDateRange(metrics, calculateDateRange(range, t)),
                        "blood_pressure"))
    THEN bpCrashed("reports")
    ELSE bpRendered("reports",
                    MapSeq(bpChartPoint,
                           SortByDateAsc(OfType(filterByDateRange(metrics,
                                                    calculateDateRange(range, t)),
                                                "blood_pressure"))),
                    NotAvailable, "")

BpTexts ==
    { <<"{", "\"systolic\"", ":", "120", ",", "\"diastolic\"", ":", "80", "}">>,
      <<"{", "\"systolic\"", ":", "130", ",", "\"diastolic\"", ":", "85", "}">>,
      <<"120", "/", "80">>,
      <<"null">>,
      <<"120">>,
      <<"\"abc\"">>,
      <<"{", "\"systolic\"", ":", "120">>,
      <<"{", "\"systolic\"", ":", "120", "}">>,
      <<"{", "}">> }

BpInputs(t) ==
    [type : {"blood_pressure"}, value : BpTexts, date : {subDays(t, 1), subDays(t, 2)}]

InitBloodPressure ==
    /\ now = Today * TicksPerDay + 1
    /\ user = SeededUser
    /\ healthMetrics \in SeqsUpTo(BpInputs(now), MaxBpReadings)
    /\ exerciseLogs = <<>>
    /\ meals = <<>>
    /\ bpView = Null
    /\ DecodeIdle
    /\ ReportsIdle
    /\ SleepIdle
    /\ GoalsIdle
    /\ ExerciseIdle
    /\ AppointmentsIdle
    /\ StoreIdle
    /\ ClientIdle

RenderHealthMetricsBp ==
    /\ bpView' = healthMetricsPageBp(healthMetrics)
    /\ UNCHANGED <<now, recordVars, bpRest>>

RenderDashboardBp ==
    /\ bpView' = dashboardBp(healthMetrics)
    /\ UNCHANGED <<now, recordVars, bpRest>>

RenderReportsBp ==
    /\ bpView' = reportsBp(healthMetrics, timeRange, now)
    /\ UNCHANGED <<now, recordVars, bpRest>>

\* The "Log Health Data" dialog, BP tab: the typed text is stored as it is and
\* the page that opened the dialog renders the refetched metrics.
LogBloodPressure(value) ==
    /\ Len(healthMetrics) < MaxBpReadings
    /\ Len(value) >= 1
    /\ healthMetrics' = Append(healthMetrics,
                               [type |-> "blood_pressure", value |-> value, date |-> now])
    /\ bpView' = healthMetricsPageBp(healthMetrics')
    /\ UNCHANGED <<now, user, exerciseLogs, meals, bpRest>>

NextBloodPressure ==
    \/ RenderHealthMetricsBp
    \/ RenderDashboardBp
    \/ RenderReportsBp
    \/ \E value \in BpTexts : LogBloodPressure(value)

SpecBloodPressure == InitBloodPressure /\ [][NextBloodPressure]_vars

\* The text is a JSON object that has a systolic and a diastolic member.
IsBpObject(text) ==
    /\ JSONparse(text).ok
    /\ JSONparse(text).value.k = "obj"
    /\ Prop(JSONparse(text).value, "\"systolic\"") # Undefined
    /\ Prop(JSONparse(text).value, "\"diastolic\"") # Undefined

\* The readings the page last rendered had to decode.
ReadingsOf(view) ==
    IF view.page = "dashboard"
    THEN SliceFirst(latestFirst(healthMetrics, "blood_pressure"), 1)
    ELSE SortByDateAsc(OfType(healthMetrics, "blood_pressure"))

ZeroOverZero == [systolic |-> Num(0), diastolic |-> Num(0)]

(* C11: showing blood pressure readings never raises, whatever the stored     *)
(* texts, and a reading whose text is not a JSON object with systolic and     *)
(* diastolic is shown as the fallback 0/0.                                    *)
C11_BloodPressureFallback ==
    bpView # Null =>
        /\ ~bpView.raised
        /\ \A i \in 1..Len(bpView.chart) :
              ~IsBpObject(ReadingsOf(bpView)[i].value) =>
                  /\ bpView.chart[i].systolic = Num(0)
                  /\ bpView.chart[i].diastolic = Num(0)
        /\ (/\ bpView.page # "reports"
            /\ ReadingsOf(bpView) # <<>>
            /\ ~IsBpObject(latestFirst(healthMetrics, "blood_pressure")[1].value))
               => bpView.card = ZeroOverZero

\* The latest two readings, when both are objects with both numbers.
LatestTwo == SliceFirst(latestFirst(healthMetrics, "blood_pressure"), 2)

TrendOf(latest, previous) ==
    IF JsGt(latest.systolic, previous.systolic) /\ JsGe(latest.diastolic, previous.diastolic)
    THEN "Rising"
    ELSE IF JsLt(latest.systolic, previous.systolic)
            /\ JsLe(latest.diastolic, previous.diastolic)
    THEN "Falling"
    ELSE "Stable"

(* C14: the trend printed with the blood pressure value compares the latest   *)
(* two readings: Rising when the latest is higher than the one before it,     *)
(* Falling when it is lower, Stable when they are equal.                      *)
C14_BloodPressureTrend ==
    (/\ bpView # Null
     /\ ~bpView.raised
     /\ bpView.page \in {"health-metrics", "dashboard"}
     /\ Len(LatestTwo) = 2
     /\ \A i \in 1..Len(LatestTwo) : IsBpObject(LatestTwo[i].value))
        => bpView.trend = TrendOf(bpShown(bpOf(LatestTwo[1])), bpShown(bpOf(LatestTwo[2])))

----------------------------------------------------------------------------
(* Exercise page: processExerciseData, and the exercise series of Reports.    *)

MaxExerciseLogs == 2

\* getExerciseLogs of the storage: the user's logs by descending date.
getExerciseLogs(logs) == SortByDateDesc(logs)

DayNames == <<"Sun", "Mon", "Tue", "Wed", "Thu", "Fri", "Sat">>

\* Date.prototype.getDay: day 0 of the epoch was a Thursday.
getDay(t) == (DayOf(t) + 4) % 7

weeklyActivityInit == [i \in 1..7 |-> [day |-> DayNames[i], minutes |-> Num(0), calories |-> Num(0)]]

weeklyActivityStep(acc, log) ==
    [i \in 1..7 |->
        IF i = getDay(log.date) + 1
        THEN [day |-> acc[i].day,
              minutes |-> JsAdd(acc[i].minutes, log.duration),
              calories |-> JsAdd(acc[i].calories, OrZero(log.calories))]
        ELSE acc[i]]

\* typeMap.set(log.type, (typeMap.get(log.type) || 0) + 1)
typeMapSet(acc, log) ==
    IF \E i \in 1..Len(acc) : acc[i].name = log.type
    THEN [i \in 1..Len(acc) |->
            IF acc[i].name = log.type
            THEN [name |-> acc[i].name, value |-> acc[i].value + 1]
            ELSE acc[i]]
    ELSE Append(acc, [name |-> log.type, value |-> 1])

typeDistributionOf(logs) ==
    MapSeq(LAMBDA e : [name |-> Capitalize(e.name), value |-> e.value],
           Reduce(typeMapSet, logs, <<>>))

\* dateMap.set(dateStr, (dateMap.get(dateStr) || 0) + (log.calories || 0))
dateMapSet(acc, log) ==
    IF \E i \in 1..Len(acc) : acc[i].date = FormatMMMdd(log.date)
    THEN [i \in 1..Len(acc) |->
            IF acc[i].date = FormatMMMdd(log.date)
            THEN [date |-> acc[i].date,
                  calories |-> JsAdd(OrZero(acc[i].calories), OrZero(log.calories))]
            ELSE acc[i]]
    ELSE Append(acc, [date |-> FormatMMMdd(log.date),
                      calories |-> JsAdd(Num(0), OrZero(log.calories))])

\* What Date makes of a "MMM dd" text is left to the implementation: the date
\* in a default year, or an invalid date.
DateParsings == {"default year", "invalid date"}

DefaultYear == 2001

\* new Date(label).getTime(), in days
labelTime(label, parsing) ==
    IF parsing = "invalid date" THEN NaN
    ELSE Num(DaysFromCivil(DefaultYear, label.m, label.d))

\* The comparator of caloriesTrend.sort; a NaN result counts as 0.
trendCompare(a, b, parsing) ==
    IF isNaN(JsSub(labelTime(a.date, parsing), labelTime(b.date, parsing)))
    THEN Num(0)
    ELSE JsSub(labelTime(a.date, parsing), labelTime(b.date, parsing))

RECURSIVE InsertByLabel(_, _, _)
InsertByLabel(x, s, parsing) ==
    IF s = <<>> THEN <<x>>
    ELSE IF JsLe(trendCompare(s[Len(s)], x, parsing), Num(0)) THEN Append(s, x)
    ELSE Append(InsertByLabel(x, SubSeq(s, 1, Len(s) - 1), parsing), s[Len(s)])

SortByLabel(s, parsing) == Reduce(LAMBDA acc, x : InsertByLabel(x, acc, parsing), s, <<>>)

caloriesTrendOf(logs, parsing) ==
    SliceLast(SortByLabel(Reduce(dateMapSet, logs, <<>>), parsing), 10)

NoExerciseData == [weeklyActivity |-> <<>>, typeDistribution |-> <<>>, caloriesTrend |-> <<>>]

\* processExerciseData for the fetched logs.
processExerciseData(logs, parsing) ==
    [weeklyActivity |-> Reduce(weeklyActivityStep, logs, weeklyActivityInit),
     typeDistribution |-> typeDistributionOf(logs),
     caloriesTrend |-> caloriesTrendOf(logs, parsing)]

ExerciseTypes == {"walking", "running"}

\* The dates of the stored logs: the two days around the turn of the year,
\* the first instant of the "year" range, yesterday and now.
ExerciseDates(t) ==
    { DaysFromCivil(2025, 12, 31) * TicksPerDay + 1,
      DaysFromCivil(2026, 1, 1) * TicksPerDay + 1,
      subMonths(t, 12),
      subDays(t, 1),
      t }

ExercisePageInputs(t) ==
    [type : ExerciseTypes, duration : {Num(30)}, calories : {Num(300), Null},
     date : ExerciseDates(t)]

InitExercise ==
    /\ now = Today * TicksPerDay + 1
    /\ user = SeededUser
    /\ healthMetrics = <<>>
    /\ exerciseLogs \in SeqsUpTo(ExercisePageInputs(now), MaxExerciseLogs)
    /\ meals = <<>>
    /\ timeRange = "month"
    /\ reportData = Null
    /\ exerciseView = NoExerciseData
    /\ dateParsing \in DateParsings
    /\ DecodeIdle
    /\ SleepIdle
    /\ GoalsIdle
    /\ BpIdle
    /\ StoreIdle
    /\ ClientIdle
    /\ AppointmentsIdle

\* The logs arrive and the Exercise page renders them.
RenderExercisePage ==
    /\ exerciseView' = processExerciseData(getExerciseLogs(exerciseLogs), dateParsing)
    /\ UNCHANGED <<now, recordVars, reportVars, dateParsing, exerciseRest>>

\* "Log Exercise": the form's values are posted, the query is invalidated and
\* the page renders the refetched logs. The Exercise page is the one on
\* screen: the Reports page is not mounted and holds no report.
LogExercise(type, calories) ==
    /\ Len(exerciseLogs) < MaxExerciseLogs
    /\ exerciseLogs' = Append(exerciseLogs,
                              [type |-> type, duration |-> Num(30),
                               calories |-> calories, date |-> now])
    /\ exerciseView' = processExerciseData(getExerciseLogs(exerciseLogs'), dateParsing)
    /\ reportData' = Null
    /\ UNCHANGED <<now, user, healthMetrics, meals, timeRange, dateParsing, exerciseRest>>

NextExercise ==
    \/ RenderExercisePage
    \/ \E type \in ExerciseTypes, calories \in {Num(300), Num(0)} : LogExercise(type, calories)
    \/ RenderReports
    \/ \E range \in TimeRanges : SetTimeRange(range)

SpecExercise == InitExercise /\ [][NextExercise]_vars

\* The earliest of the logs that fall into the bucket labelled label.
EarliestIn(label, logs) ==
    CHOOSE t \in {logs[i].date : i \in 1..Len(logs)} :
        /\ FormatMMMdd(t) = label
        /\ \A i \in 1..Len(logs) : FormatMMMdd(logs[i].date) = label => t <= logs[i].date

Chronological(series, logs) ==
    \A i, j \in 1..Len(series) :
        i < j => EarliestIn(series[i].date, logs) < EarliestIn(series[j].date, logs)

InRangeExercise == filterByDateRange(exerciseLogs, calculateDateRange(timeRange, now))

MaxAgedRecords == 1

\* Records of several ages, so that each range leaves some of them out: a
\* weight, a sleep entry and two blood pressure readings, an exercise log and
\* a meal.
AgedMetricInputs(t) ==
    { [type |-> "weight", value |-> <<"1", "3", "0">>, date |-> subDays(t, 40)],
      [type |-> "sleep", value |-> <<"8">>, date |-> subDays(t, 100)],
      [type |-> "blood_pressure", value |-> <<"null">>, date |-> subDays(t, 200)],
      [type |-> "blood_pressure", value |-> <<"120", "/", "80">>, date |-> subDays(t, 8)] }

AgedExerciseInputs(t) ==
    { [type |-> "walking", duration |-> Num(210), calories |-> Null, date |-> subDays(t, 40)] }

AgedMealInputs(t) ==
    { [calories |-> Num(500), protein |-> Num(72), carbs |-> Num(50), fat |-> Null,
       date |-> subDays(t, 100)] }

InitAgedReports ==
    /\ now = Today * TicksPerDay + 1
    /\ user \in UserInputs
    /\ healthMetrics \in SeqsUpTo(AgedMetricInputs(now), MaxAgedRecords)
    /\ exerciseLogs \in SeqsUpTo(AgedExerciseInputs(now), MaxAgedRecords)
    /\ meals \in SeqsUpTo(AgedMealInputs(now), MaxAgedRecords)
    /\ timeRange = "month"
    /\ reportData = Null
    /\ DecodeIdle
    /\ SleepIdle
    /\ GoalsIdle
    /\ ExtraIdle

SpecAgedReports == InitAgedReports /\ [][NextReports]_vars

InRangeMetrics == filterByDateRange(healthMetrics, calculateDateRange(timeRange, now))

InRangeMeals == filterByDateRange(meals, calculateDateRange(timeRange, now))

NothingInRange == InRangeMetrics = <<>> /\ InRangeExercise = <<>> /\ InRangeMeals = <<>>

ZeroTotals == [calories |-> Num(0), protein |-> Num(0), carbs |-> Num(0), fat |-> Num(0)]

(* C15: when the collections are empty or the selected range leaves no record *)
(* in, the report is made without an error: the weight, blood pressure,       *)
(* sleep and exercise series are empty, the nutrition totals are zero, the    *)
(* four sub-scores are 0 and the overall score is 0.                          *)
C15_EmptyReport ==
    (reportData # Null /\ NothingInRange) =>
        /\ reportData # ReportThrew
        /\ reportData.weightData = <<>>
        /\ reportData.bpData = <<>>
        /\ reportData.sleepData = <<>>
        /\ reportData.exerciseTypeData = <<>>
        /\ reportData.caloriesBurnedData = <<>>
        /\ reportData.nutritionData = ZeroTotals
        /\ reportData.healthIndex.weight.value = Num(0)
        /\ reportData.healthIndex.exercise.value = Num(0)
        /\ reportData.healthIndex.sleep.value = Num(0)
        /\ reportData.healthIndex.nutrition.value = Num(0)
        /\ reportData.overallHealthScore = Num(0)

\* A report was made while the store held a record that the range leaves out.
C15_Witness ==
    /\ reportData # Null
    /\ NothingInRange
    /\ healthMetrics # <<>>
    /\ reportData.overallHealthScore = Num(0)

(* C12: the buckets of the Reports page's calories-burned series and of the   *)
(* Exercise page's calories trend stand in ascending chronological order of   *)
(* the earliest log each holds, whatever the order the logs arrived in and    *)
(* also across the turn of a year.                                            *)
C12_BucketsChronological ==
    /\ reportData # Null => Chronological(reportData.caloriesBurnedData, InRangeExercise)
    /\ Chronological(exerciseView.caloriesTrend, exerciseLogs)

(* C13: for every time range of the Reports page, Active Days is the number   *)
(* of distinct calendar dates that have an exercise log in the range.         *)
C13_ActiveDaysDistinctDates ==
    reportData # Null =>
        activeDays(reportData) =
            Cardinality({DayOf(InRangeExercise[i].date) : i \in 1..Len(InRangeExercise)})

----------------------------------------------------------------------------
(* Server: MemStorage and the routes over it. A Map is the sequence of its    *)
(* entries in insertion order; a record keeps the fields its queries read.    *)

MaxStoreOps == 1

Entities ==
    {"healthMetrics", "medications", "medicationLogs", "meals", "appointments",
     "goals", "exerciseLogs"}

MapHas(m, key) == \E i \in 1..Len(m) : m[i].key = key

MapGet(m, key) == m[CHOOSE i \in 1..Len(m) : m[i].key = key].value

\* Map.prototype.set: an existing key keeps its place.
MapSet(m, key, value) ==
    IF MapHas(m, key)
    THEN [i \in 1..Len(m) |-> IF m[i].key = key THEN [key |-> key, value |-> value] ELSE m[i]]
    ELSE Append(m, [key |-> key, value |-> value])

MapDelete(m, key) == SelectSeq(m, LAMBDA e : e.key # key)

\* Array.from(map.values())
MapValues(m) == [i \in 1..Len(m) |-> m[i].value]

\* seedData sets a metric, a medication log and an exercise log under the
\* counter's value before the increment and gives it the value after as id.
SeedEntryShifted(key, value) == [key |-> key, value |-> [id |-> key + 1] @@ value]

SeedEntry(value) == [key |-> value.id, value |-> value]

SeededUserId == 1

seedUsers ==
    << SeedEntry([id |-> SeededUserId, username |-> "sarah", password |-> "password123",
                  targetWeight |-> Num(60), targetSleep |-> Num(8)]) >>

seedHealthMetrics(t) ==
    [i \in 1..7 |-> SeedEntryShifted(i, [userId |-> SeededUserId, type |-> "weight",
                                          date |-> subMonths(t, 7 - i)])]
    \o << SeedEntryShifted(8, [userId |-> SeededUserId, type |-> "blood_pressure",
                               date |-> subDays(t, 1)]),
          SeedEntryShifted(9, [userId |-> SeededUserId, type |-> "heart_rate", date |-> t]),
          SeedEntryShifted(10, [userId |-> SeededUserId, type |-> "sleep", date |-> t]) >>

\* The instant of day t's date at the given hour.
AtHour(t, hour) == DayOf(t) * TicksPerDay + (hour * TicksPerDay) \div 24

\* The hours of the seeded medications' times: 08:00, 12:00 and 18:00.
seedHours == <<8, 12, 18>>

seedMedications ==
    [i \in 1..3 |-> SeedEntry([id |-> i, userId |-> SeededUserId, active |-> TRUE,
                                time |-> seedHours[i]])]

seedMedicationLogs(t) ==
    [i \in 1..3 |-> SeedEntryShifted(i, [medicationId |-> i, userId |-> SeededUserId,
                                          taken |-> FALSE,
                                          scheduledTime |-> AtHour(t, seedHours[i])])]

seedMeals(t) ==
    << SeedEntry([id |-> 1, userId |-> SeededUserId, date |-> DayOf(t) * TicksPerDay]),
       SeedEntry([id |-> 2, userId |-> SeededUserId, date |-> DayOf(t) * TicksPerDay + 1]) >>

seedAppointments ==
    << SeedEntry([id |-> 1, userId |-> SeededUserId,
                  date |-> DaysFromCivil(2023, 9, 15) * TicksPerDay]),
       SeedEntry([id |-> 2, userId |-> SeededUserId,
                  date |-> DaysFromCivil(2023, 10, 3) * TicksPerDay + 1]) >>

seedGoals == [i \in 1..3 |-> SeedEntry([id |-> i, userId |-> SeededUserId])]

\* date.setDate(date.getDate() - (date.getDay() - i - 1)), i from 0 to 6
seedExerciseLogs(t) ==
    [k \in 1..7 |-> SeedEntryShifted(k, [userId |-> SeededUserId,
                                          date |-> subDays(t, getDay(t) - k)])]

\* The storage after its constructor: the maps seedData fills and the
\* counters it leaves behind.
seedData(t) ==
    [users |-> seedUsers,
     userId |-> 2,
     maps |-> [e \in Entities |->
                 CASE e = "healthMetrics" -> seedHealthMetrics(t)
                   [] e = "medications" -> seedMedications
                   [] e = "medicationLogs" -> seedMedicationLogs(t)
                   [] e = "meals" -> seedMeals(t)
                   [] e = "appointments" -> seedAppointments
                   [] e = "goals" -> seedGoals
                   [] e = "exerciseLogs" -> seedExerciseLogs(t)],
     ids |-> [e \in Entities |->
                 CASE e = "healthMetrics" -> 11
                   [] e = "medications" -> 4
                   [] e = "medicationLogs" -> 4
                   [] e = "meals" -> 3
                   [] e = "appointments" -> 3
                   [] e = "goals" -> 4
                   [] e = "exerciseLogs" -> 8]]

\* An optional argument or field: undefined, or a value.
NotGiven == [given |-> FALSE]

Given(v) == [given |-> TRUE, value |-> v]

\* { ...data, id }: the id comes last and wins.
WithId(data, id) == [id |-> id] @@ data

\* { ...existing, ...body }: a field of the body wins.
Merge(existing, body) == body @@ existing

\* createX: const id = this.xId++; set(id, { ...data, id })
createRecord(st, e, data) ==
    [st EXCEPT !.maps[e] = MapSet(st.maps[e], st.ids[e], WithId(data, st.ids[e])),
               !.ids[e] = st.ids[e] + 1]

\* updateX of the entities whose route hands req.body over as it is.
updateRecord(st, e, id, body) ==
    [st EXCEPT !.maps[e] = MapSet(st.maps[e], id, Merge(MapGet(st.maps[e], id), body))]

\* updateMedicationLog(id, taken, takenTime), called at time t:
\* { ...log, taken, takenTime: takenTime || (taken ? new Date() : undefined) }
updateMedicationLog(st, id, taken, takenTime, t) ==
    [st EXCEPT !.maps["medicationLogs"] =
        MapSet(st.maps["medicationLogs"], id,
               Merge(MapGet(st.maps["medicationLogs"], id),
                     [taken |-> taken,
                      takenTime |-> IF takenTime.given THEN takenTime
                                    ELSE IF taken THEN Given(t) ELSE NotGiven]))]

deleteRecord(st, e, id) == [st EXCEPT !.maps[e] = MapDelete(st.maps[e], id)]

createUser(st, userData) ==
    [st EXCEPT !.users = MapSet(st.users, st.userId, WithId(userData, st.userId)),
               !.userId = st.userId + 1]

updateUser(st, id, userData) ==
    [st EXCEPT !.users = MapSet(st.users, id, Merge(MapGet(st.users, id), userData))]

getUserByUsername(st, username) ==
    SelectSeq(MapValues(st.users), LAMBDA u : u.username = username)

\* The records of every user: the list without its filter on userId.
OfAnyUser(records, userId) == records

OfUser(records, userId) == SelectSeq(records, LAMBDA r : r.userId = userId)

\* getHealthMetrics(userId, type?): an empty type is no type.
getHealthMetrics(st, userId, type) ==
    IF type.given /\ type.value # ""
    THEN SelectSeq(OfUser(MapValues(st.maps["healthMetrics"]), userId),
                   LAMBDA m : m.type = type.value)
    ELSE OfUser(MapValues(st.maps["healthMetrics"]), userId)

getHealthMetricsByDateRange(st, userId, type, startDate, endDate) ==
    SortByDateAsc(SelectSeq(MapValues(st.maps["healthMetrics"]),
                            LAMBDA m : /\ m.userId = userId
                                       /\ m.type = type
                                       /\ m.date >= startDate
                                       /\ m.date <= endDate))

getMedications(st, userId, active) ==
    IF active.given
    THEN SelectSeq(OfUser(MapValues(st.maps["medications"]), userId),
                   LAMBDA med : med.active = active.value)
    ELSE OfUser(MapValues(st.maps["medications"]), userId)

RECURSIVE InsertByScheduledTime(_, _)
InsertByScheduledTime(x, s) ==
    IF s = <<>> THEN <<x>>
    ELSE IF s[Len(s)].scheduledTime <= x.scheduledTime THEN Append(s, x)
    ELSE Append(InsertByScheduledTime(x, SubSeq(s, 1, Len(s) - 1)), s[Len(s)])

SortByScheduledTime(s) == Reduce(LAMBDA acc, x : InsertByScheduledTime(x, acc), s, <<>>)

getMedicationLogs(st, userId, medicationId) ==
    SortByScheduledTime(
        IF medicationId.given
        THEN SelectSeq(OfUser(MapValues(st.maps["medicationLogs"]), userId),
                       LAMBDA log : log.medicationId = medicationId.value)
        ELSE OfUser(MapValues(st.maps["medicationLogs"]), userId))

\* getMeals(userId, date?): the meals from the start to the end of that day.
getMeals(st, userId, date) ==
    IF date.given
    THEN SelectSeq(OfUser(MapValues(st.maps["meals"]), userId),
                   LAMBDA meal : /\ meal.date >= DayOf(date.value) * TicksPerDay
                                 /\ meal.date <= DayOf(date.value) * TicksPerDay
                                                 + (TicksPerDay - 1))
    ELSE OfUser(MapValues(st.maps["meals"]), userId)

getAppointments(st, userId) ==
    SortByDateAsc(OfUser(MapValues(st.maps["appointments"]), userId))

getUpcomingAppointments(st, userId, t) ==
    SortByDateAsc(SelectSeq(MapValues(st.maps["appointments"]),
                            LAMBDA apt : apt.userId = userId /\ apt.date >= t))

getStoredGoals(st, userId) == OfUser(MapValues(st.maps["goals"]), userId)

\* getExerciseLogs(userId, startDate?, endDate?): the range counts when both
\* of its ends are given.
getStoredExerciseLogs(st, userId, startDate, endDate) ==
    SortByDateDesc(
        IF startDate.given /\ endDate.given
        THEN SelectSeq(OfUser(MapValues(st.maps["exerciseLogs"]), userId),
                       LAMBDA log : log.date >= startDate.value /\ log.date <= endDate.value)
        ELSE OfUser(MapValues(st.maps["exerciseLogs"]), userId))

\* A list request: the entity, the user and the filter of the query string.
\* filter.kind names the route's variant.
listOf(st, e, userId, filter, t) ==
    CASE e = "healthMetrics" /\ filter.kind = "range" ->
             getHealthMetricsByDateRange(st, userId, filter.type, filter.startDate,
                                         filter.endDate)
      [] e = "healthMetrics" /\ filter.kind # "range" ->
             getHealthMetrics(st, userId, filter.type)
      [] e = "medications" -> getMedications(st, userId, filter.active)
      [] e = "medicationLogs" -> getMedicationLogs(st, userId, filter.medicationId)
      [] e = "meals" -> getMeals(st, userId, filter.date)
      [] e = "appointments" /\ filter.kind = "upcoming" ->
             getUpcomingAppointments(st, userId, t)
      [] e = "appointments" /\ filter.kind # "upcoming" -> getAppointments(st, userId)
      [] e = "goals" -> getStoredGoals(st, userId)
      [] e = "exerciseLogs" ->
             getStoredExerciseLogs(st, userId, filter.startDate, filter.endDate)

UserIds == {1, 2}

\* The query strings of the list routes.
Filters(e, t) ==
    CASE e = "healthMetrics" ->
             [kind : {"all"}, type : {NotGiven, Given(""), Given("sleep")}]
             \cup [kind : {"range"}, type : {"weight"},
                   startDate : {subMonths(t, 2)}, endDate : {t}]
      [] e = "medications" ->
             [kind : {"all"}, active : {NotGiven, Given(TRUE), Given(FALSE)}]
      [] e = "medicationLogs" ->
             [kind : {"all"}, medicationId : {NotGiven, Given(1)}]
      [] e = "meals" -> [kind : {"all"}, date : {NotGiven, Given(t), Given(subDays(t, 1))}]
      [] e = "appointments" -> [kind : {"all", "upcoming"}]
      [] e = "goals" -> [kind : {"all"}]
      [] e = "exerciseLogs" ->
             [kind : {"all"}, startDate : {NotGiven, Given(subDays(t, 1))},
              endDate : {NotGiven, Given(t)}]

\* The bodies of the create requests that pass the insert schema.
CreateInputs(e, t) ==
    CASE e = "healthMetrics" -> [userId : UserIds, type : {"sleep"}, date : {t}]
      [] e = "medications" -> [userId : UserIds, active : {FALSE}, time : {8}]
      [] e = "medicationLogs" ->
             [userId : UserIds, medicationId : {1}, taken : {TRUE},
              scheduledTime : {DayOf(t) * TicksPerDay}]
      [] e = "meals" -> [userId : UserIds, date : {t}]
      [] e = "appointments" -> [userId : UserIds, date : {t + TicksPerDay}]
      [] e = "goals" -> [userId : UserIds]
      [] e = "exerciseLogs" -> [userId : UserIds, date : {t}]

\* The entities with a PUT route that stores req.body, and with a DELETE route.
Updatable == Entities \ {"healthMetrics", "medicationLogs"}

UpdateBodies == { [userId |-> 2], [id |-> 7] }

TargetIds == {1, 9}

Created(e, record) == [kind |-> "create", entity |-> e, status |-> 201, body |-> record]

Updated(e, status) == [kind |-> "update", entity |-> e, status |-> status]

Deleted(e, status) == [kind |-> "delete", entity |-> e, status |-> status]

Listed(e, userId, filter, records) ==
    [kind |-> "list", entity |-> e, status |-> 200, userId |-> userId,
     filter |-> filter, body |-> records]

InitStore ==
    /\ now = Today * TicksPerDay + 1
    /\ storage = seedData(now)
    /\ response = Null
    /\ storeOps = 0
    /\ RecordsIdle
    /\ ReportsIdle
    /\ DecodeIdle
    /\ SleepIdle
    /\ GoalsIdle
    /\ BpIdle
    /\ ExerciseIdle
    /\ AppointmentsIdle
    /\ ClientIdle

\* POST /api/<entity>
PostRecord(e, data) ==
    /\ storeOps < MaxStoreOps
    /\ storage' = createRecord(storage, e, data)
    /\ response' = Created(e, WithId(data, storage.ids[e]))
    /\ storeOps' = storeOps + 1
    /\ UNCHANGED <<now, storeRest>>

\* PUT /api/<entity>/:id
PutRecord(e, id, body) ==
    /\ storeOps < MaxStoreOps
    /\ IF MapHas(storage.maps[e], id)
       THEN /\ storage' = updateRecord(storage, e, id, body)
            /\ response' = Updated(e, 200)
            /\ storeOps' = storeOps + 1
       ELSE /\ response' = Updated(e, 404)
            /\ UNCHANGED <<storage, storeOps>>
    /\ UNCHANGED <<now, storeRest>>

\* req.body.takenTime ? new Date(req.body.takenTime) : undefined
takenTimeOf(body) ==
    IF "takenTime" \in DOMAIN body THEN Given(body.takenTime) ELSE NotGiven

\* The bodies put to /api/medication-logs/:id.
TakenBodies(t) == {[taken |-> TRUE], [taken |-> FALSE, takenTime |-> t]}

\* PUT /api/medication-logs/:id
PutMedicationLog(id, body) ==
    /\ storeOps < MaxStoreOps
    /\ IF MapHas(storage.maps["medicationLogs"], id)
       THEN /\ storage' = updateMedicationLog(storage, id, body.taken, takenTimeOf(body), now)
            /\ response' = Updated("medicationLogs", 200)
            /\ storeOps' = storeOps + 1
       ELSE /\ response' = Updated("medicationLogs", 404)
            /\ UNCHANGED <<storage, storeOps>>
    /\ UNCHANGED <<now, storeRest>>

\* DELETE /api/<entity>/:id
DeleteRecord(e, id) ==
    /\ storeOps < MaxStoreOps
    /\ IF MapHas(storage.maps[e], id)
       THEN /\ storage' = deleteRecord(storage, e, id)
            /\ response' = Deleted(e, 200)
            /\ storeOps' = storeOps + 1
       ELSE /\ response' = Deleted(e, 404)
            /\ UNCHANGED <<storage, storeOps>>
    /\ UNCHANGED <<now, storeRest>>

\* The user as stored, password included.
WithPassword(u) == u

\* const { password, ...userWithoutPassword } = user
WithoutPassword(u) == [f \in DOMAIN u \ {"password"} |-> u[f]]

\* The response of a user route: its status and the JSON body sent.
UserResponse(kind, status, body) == [kind |-> kind, status |-> status, body |-> body]

Message(text) == [message |-> text]

\* insertUserSchema.safeParse: username and password are required texts; the
\* other required columns (firstName, lastName, email) are taken as given.
ValidUser(body) == {"username", "password"} \subseteq DOMAIN body

\* The issues of a failed parse name the missing fields.
IssuesOf(body) == {[path |-> f, message |-> "Required"] : f \in {"username", "password"} \ DOMAIN body}

\* The bodies posted to /api/register.
RegisterBodies ==
    [username : {"sarah", "kyle"}, password : {"secret"}, targetWeight : {Null},
     targetSleep : {Null}]
        \cup {[username |-> "kyle"]}

\* !body.field: the field is not there, or is the empty text.
Missing(body, f) == f \notin DOMAIN body \/ body[f] = ""

\* GET /api/user/:id
GetUser(id) ==
    /\ response' = IF MapHas(storage.users, id)
                   THEN UserResponse("get user", 200,
                                     WithoutPassword(MapGet(storage.users, id)))
                   ELSE UserResponse("get user", 404, Message("User not found"))
    /\ UNCHANGED <<now, storage, storeOps, storeRest>>

\* POST /api/login
Login(body) ==
    /\ response' =
          IF Missing(body, "username") \/ Missing(body, "password")
          THEN UserResponse("login", 400, Message("Username and password are required"))
          ELSE IF \/ getUserByUsername(storage, body.username) = <<>>
                  \/ getUserByUsername(storage, body.username)[1].password # body.password
          THEN UserResponse("login", 401, Message("Invalid username or password"))
          ELSE UserResponse("login", 200,
                            WithoutPassword(getUserByUsername(storage, body.username)[1]))
    /\ UNCHANGED <<now, storage, storeOps, storeRest>>

\* POST /api/register
Register(body) ==
    /\ storeOps < MaxStoreOps
    /\ IF ~ValidUser(body)
       THEN /\ response' = UserResponse("register", 400,
                                        [message |-> "Invalid user data",
                                         errors |-> IssuesOf(body)])
            /\ UNCHANGED <<storage, storeOps>>
       ELSE IF getUserByUsername(storage, body.username) # <<>>
       THEN /\ response' = UserResponse("register", 409, Message("Username already exists"))
            /\ UNCHANGED <<storage, storeOps>>
       ELSE /\ storage' = createUser(storage, body)
            /\ response' = UserResponse("register", 201,
                                        WithoutPassword(WithId(body, storage.userId)))
            /\ storeOps' = storeOps + 1
    /\ UNCHANGED <<now, storeRest>>

\* PUT /api/user/:id
PutUser(id, userData) ==
    /\ storeOps < MaxStoreOps
    /\ IF MapHas(storage.users, id)
       THEN /\ storage' = updateUser(storage, id, userData)
            /\ response' = UserResponse("user", 200,
                               WithoutPassword(Merge(MapGet(storage.users, id), userData)))
            /\ storeOps' = storeOps + 1
       ELSE /\ response' = UserResponse("user", 404, Message("User not found"))
            /\ UNCHANGED <<storage, storeOps>>
    /\ UNCHANGED <<now, storeRest>>

\* GET /api/<entity>/:userId
GetList(e, userId, filter) ==
    /\ response' = Listed(e, userId, filter, listOf(storage, e, userId, filter, now))
    /\ UNCHANGED <<now, storage, storeOps, storeRest>>

NextStore ==
    \/ \E e \in Entities : \E data \in CreateInputs(e, now) : PostRecord(e, data)
    \/ \E e \in Updatable, id \in TargetIds, body \in UpdateBodies : PutRecord(e, id, body)
    \/ \E id \in TargetIds, body \in TakenBodies(now) : PutMedicationLog(id, body)
    \/ \E e \in Updatable, id \in TargetIds : DeleteRecord(e, id)
    \/ \E body \in RegisterBodies : Register(body)
    \/ \E id \in UserIds : PutUser(id, [targetWeight |-> Num(70)])
    \/ \E e \in Entities, userId \in UserIds :
          \E filter \in Filters(e, now) : GetList(e, userId, filter)

SpecStore == InitStore /\ [][NextStore]_vars

\* The ids of the users the storage holds.
StoredUserIds == {storage.users[i].key : i \in 1..Len(storage.users)}

(* C17: a record is written only for an existing user: every stored record's  *)
(* userId is the id of a stored user, and no create request that names a user *)
(* the storage does not hold is answered with 201.                            *)
C17_RecordsOfExistingUsers ==
    /\ \A e \in Entities : \A i \in 1..Len(storage.maps[e]) :
          storage.maps[e][i].value.userId \in StoredUserIds
    /\ (response # Null /\ response.kind = "create" /\ response.status = 201)
          => response.body.userId \in StoredUserIds

\* The record matches the filter of the list request.
Matches(e, r, filter, t) ==
    CASE e = "healthMetrics" /\ filter.kind = "range" ->
             r.type = filter.type /\ r.date >= filter.startDate /\ r.date <= filter.endDate
      [] e = "healthMetrics" /\ filter.kind # "range" ->
             (filter.type.given /\ filter.type.value # "") => r.type = filter.type.value
      [] e = "medications" -> filter.active.given => r.active = filter.active.value
      [] e = "medicationLogs" ->
             filter.medicationId.given => r.medicationId = filter.medicationId.value
      [] e = "meals" -> filter.date.given => DayOf(r.date) = DayOf(filter.date.value)
      [] e = "appointments" -> filter.kind = "upcoming" => r.date >= t
      [] e = "goals" -> TRUE
      [] e = "exerciseLogs" ->
             (filter.startDate.given /\ filter.endDate.given)
                => (r.date >= filter.startDate.value /\ r.date <= filter.endDate.value)

\* The places in the entity's map of the records the request asks for.
Asked(e, userId, filter) ==
    {i \in 1..Len(storage.maps[e]) :
        /\ storage.maps[e][i].value.userId = userId
        /\ Matches(e, storage.maps[e][i].value, filter, now)}

(* C18: a list request for user u is answered with exactly the stored records *)
(* whose userId is u and that match the request's filter, each once, and with *)
(* no record of another user.                                                 *)
C18_ListIsOwnRecords ==
    (response # Null /\ response.kind = "list") =>
        /\ \A i \in 1..Len(response.body) : response.body[i].userId = response.userId
        /\ {response.body[i] : i \in 1..Len(response.body)}
              = {storage.maps[response.entity][i].value :
                    i \in Asked(response.entity, response.userId, response.filter)}
        /\ Len(response.body)
              = Cardinality(Asked(response.entity, response.userId, response.filter))

\* A list was answered while the entity's map held a record of another user,
\* after a request had changed the storage.
C18_Witness ==
    /\ response # Null
    /\ response.kind = "list"
    /\ storeOps > 0
    /\ response.body # <<>>
    /\ \E i \in 1..Len(storage.maps[response.entity]) :
          storage.maps[response.entity][i].value.userId # response.userId

(* C19: in every state of the storage, the seeded one included, a record's id *)
(* is the key its map holds it under, and no two records of an entity have    *)
(* the same id.                                                               *)
C19_IdIsKey ==
    \A e \in Entities :
        /\ \A i \in 1..Len(storage.maps[e]) :
              storage.maps[e][i].value.id = storage.maps[e][i].key
        /\ \A i, j \in 1..Len(storage.maps[e]) :
              i # j => storage.maps[e][i].value.id # storage.maps[e][j].value.id

----------------------------------------------------------------------------
(* Client: the router's user, the query cache, and the pages' mutations.      *)

MaxClientOps == 2

MaxMedicationOps == 3

HealthMetricsKey == "/api/health-metrics"

SleepKey == "/api/health-metrics?type=sleep"

MedicationsKey == "/api/medications"

MedicationLogsKey == "/api/medication-logs"

MealsKey == "/api/meals"

QueryKeys == {HealthMetricsKey, SleepKey, MedicationsKey, MedicationLogsKey, MealsKey}

Pages == {"dashboard", "metrics", "sleep", "reports", "profile"}

\* The queries a page's useQuery calls mount.
QueriesOf(p) ==
    CASE p = "dashboard" -> {HealthMetricsKey, MedicationsKey, MedicationLogsKey, MealsKey}
      [] p = "metrics" -> {HealthMetricsKey}
      [] p = "reports" -> {HealthMetricsKey, MealsKey}
      [] p = "sleep" -> {SleepKey}
      [] p = "medications" -> {MedicationsKey, MedicationLogsKey}
      [] p = "nutrition" -> {MealsKey}
      [] OTHER -> {}

\* The query function page p gives to a key, answered by the server at time
\* t: the dashboard asks for the active medications and for the meals of today.
queryFn(st, p, key, userId, t) ==
    CASE key = HealthMetricsKey -> getHealthMetrics(st, userId, NotGiven)
      [] key = SleepKey -> getHealthMetrics(st, userId, Given("sleep"))
      [] key = MedicationsKey /\ p = "dashboard" -> getMedications(st, userId, Given(TRUE))
      [] key = MedicationsKey /\ p # "dashboard" -> getMedications(st, userId, NotGiven)
      [] key = MedicationLogsKey -> getMedicationLogs(st, userId, NotGiven)
      [] key = MealsKey /\ p = "dashboard" -> getMeals(st, userId, Given(t))
      [] key = MealsKey /\ p # "dashboard" -> getMeals(st, userId, NotGiven)

NotLoaded == [loaded |-> FALSE, data |-> <<>>]

Loaded(data) == [loaded |-> TRUE, data |-> data]

\* How long fetched data counts as fresh is the query client's setting.
StaleTimes == {"zero", "infinity"}

\* A mounting query fetches when it has no data, or when its data is stale.
FetchOnMount(cache, key, stale) == ~cache[key].loaded \/ stale = "zero"

\* The fetches that start on page p run with p's query functions.
StartedBy(p, keys) == [key \in QueryKeys |-> IF key \in keys THEN p ELSE fetcher[key]]

\* The user the Router fetched once, as the pages get it.
RouterUser(st) ==
    [targetWeight |-> MapGet(st.users, SeededUserId).targetWeight,
     targetSleep |-> MapGet(st.users, SeededUserId).targetSleep]

InitClient ==
    /\ now = Today * TicksPerDay + 1
    /\ storage = seedData(now)
    /\ response = Null
    /\ storeOps = 0
    /\ user = RouterUser(storage)
    /\ route = "dashboard"
    /\ queryCache = [key \in QueryKeys |-> NotLoaded]
    /\ fetching = QueriesOf("dashboard")
    /\ staleTime \in StaleTimes
    /\ fetcher = [key \in QueryKeys |-> "dashboard"]
    /\ healthMetrics = <<>>
    /\ exerciseLogs = <<>>
    /\ meals = <<>>
    /\ ReportsIdle
    /\ DecodeIdle
    /\ SleepIdle
    /\ GoalsIdle
    /\ BpIdle
    /\ ExerciseIdle
    /\ AppointmentsIdle

\* The router shows another page; its queries mount. A query with a fetch in
\* flight starts no second one.
Navigate(p) ==
    /\ p # route
    /\ route' = p
    /\ fetching' = fetching \cup {key \in QueriesOf(p) : FetchOnMount(queryCache, key, staleTime)}
    /\ fetcher' = StartedBy(p, {key \in QueriesOf(p) \ fetching :
                                   FetchOnMount(queryCache, key, staleTime)})
    /\ UNCHANGED <<now, user, storeVars, queryCache, staleTime, clientRest>>

\* A fetch is answered and its data put in the cache.
FetchCompletes(key) ==
    /\ key \in fetching
    /\ queryCache' = [queryCache EXCEPT
                         ![key] = Loaded(queryFn(storage, fetcher[key], key, SeededUserId, now))]
    /\ fetching' = fetching \ {key}
    /\ UNCHANGED <<now, user, storeVars, route, staleTime, fetcher, clientRest>>

\* invalidateQueries({ queryKey }): the queries whose key starts with it.
Invalidated(queryKey) ==
    CASE queryKey = HealthMetricsKey -> {HealthMetricsKey, SleepKey}
      [] queryKey \in QueryKeys -> {queryKey}
      [] OTHER -> {}

\* Sleep page, onSubmit: the entry is posted and the page's query invalidated;
\* the mounted queries among the invalidated ones fetch again.
LogSleepEntry ==
    /\ route = "sleep"
    /\ storeOps < MaxClientOps
    /\ storage' = createRecord(storage, "healthMetrics",
                               [userId |-> SeededUserId, type |-> "sleep", date |-> now])
    /\ response' = Created("healthMetrics",
                           WithId([userId |-> SeededUserId, type |-> "sleep", date |-> now],
                                  storage.ids["healthMetrics"]))
    /\ storeOps' = storeOps + 1
    /\ fetching' = fetching \cup (Invalidated(SleepKey) \cap QueriesOf(route))
    /\ fetcher' = StartedBy(route, (Invalidated(SleepKey) \cap QueriesOf(route)))
    /\ UNCHANGED <<now, user, route, queryCache, staleTime, clientRest>>

ProfileTargets == [targetWeight : {Num(60), Num(70)}, targetSleep : {Num(8), Num(7)}]

\* Profile page, onSubmit: the form is put and ["/api/user", id] invalidated,
\* a key no query has; the Router's user is state it set once.
SaveProfile(data) ==
    /\ route = "profile"
    /\ storeOps < MaxClientOps
    /\ storage' = updateUser(storage, SeededUserId, data)
    /\ response' = UserResponse("user", 200,
                       WithoutPassword(Merge(MapGet(storage.users, SeededUserId), data)))
    /\ storeOps' = storeOps + 1
    /\ fetching' = fetching \cup (Invalidated("/api/user") \cap QueriesOf(route))
    /\ fetcher' = StartedBy(route, (Invalidated("/api/user") \cap QueriesOf(route)))
    /\ UNCHANGED <<now, user, route, queryCache, staleTime, clientRest>>

NextClient ==
    \/ \E p \in Pages : Navigate(p)
    \/ \E key \in QueryKeys : FetchCompletes(key)
    \/ LogSleepEntry
    \/ \E data \in ProfileTargets : SaveProfile(data)

SpecClient == InitClient /\ [][NextClient]_vars

\* The sleep entries among the records.
SleepEntries(records) == {records[i] : i \in {j \in 1..Len(records) : records[j].type = "sleep"}}

(* C16: once no fetch is in flight, what the shown page works with is not     *)
(* older than the last successful mutation: the targets the pages get are the *)
(* stored user's targets, and the sleep entries in the shown page's query     *)
(* data are the stored sleep entries.                                         *)
C16_NothingStaleShown ==
    fetching = {} =>
        /\ user = RouterUser(storage)
        /\ \A key \in QueriesOf(route) \cap {HealthMetricsKey, SleepKey} :
              SleepEntries(queryCache[key].data)
                = SleepEntries(getHealthMetrics(storage, SeededUserId, NotGiven))

----------------------------------------------------------------------------
(* Medications page: Take.                                                     *)

InitMedications ==
    /\ now = Today * TicksPerDay + 1
    /\ storage = seedData(now)
    /\ response = Null
    /\ storeOps = 0
    /\ user = RouterUser(storage)
    /\ route = "medications"
    /\ queryCache = [key \in QueryKeys |-> NotLoaded]
    /\ fetching = QueriesOf("medications")
    /\ staleTime \in StaleTimes
    /\ fetcher = [key \in QueryKeys |-> "medications"]
    /\ healthMetrics = <<>>
    /\ exerciseLogs = <<>>
    /\ meals = <<>>
    /\ ReportsIdle
    /\ DecodeIdle
    /\ SleepIdle
    /\ GoalsIdle
    /\ BpIdle
    /\ ExerciseIdle
    /\ AppointmentsIdle

\* medicationLogs?.find(l => l.medicationId === medication.id &&
\*                           new Date(l.scheduledTime) >= today)
todaysLogs(logs, medication, t) ==
    SelectSeq(logs, LAMBDA l : /\ l.medicationId = medication.id
                               /\ l.scheduledTime >= DayOf(t) * TicksPerDay)

\* The storage after the PUT that toggles the found log, addressed by its id,
\* with the body { taken: !log.taken, takenTime: new Date() }.
afterToggle(st, log, t) ==
    IF MapHas(st.maps["medicationLogs"], log.id)
    THEN updateMedicationLog(st, log.id, ~log.taken, Given(t), t)
    ELSE st

\* The storage after the POST that creates today's log.
afterCreate(st, medication, t) ==
    createRecord(st, "medicationLogs",
                 [medicationId |-> medication.id, userId |-> SeededUserId, taken |-> TRUE,
                  scheduledTime |-> AtHour(t, medication.time), takenTime |-> Given(t)])

\* handleTakeMedication: the log is looked up in the query's data as it is at
\* the click; the request is answered and the logs are fetched again.
handleTakeMedication(medication) ==
    /\ storeOps < MaxMedicationOps
    /\ storage' = IF todaysLogs(queryCache[MedicationLogsKey].data, medication, now) # <<>>
                  THEN afterToggle(storage,
                                   todaysLogs(queryCache[MedicationLogsKey].data,
                                              medication, now)[1],
                                   now)
                  ELSE afterCreate(storage, medication, now)
    /\ response' = [kind |-> "take", status |-> 200]
    /\ storeOps' = storeOps + 1
    /\ fetching' = fetching \cup {MedicationLogsKey}
    /\ fetcher' = StartedBy(route, {MedicationLogsKey})
    /\ UNCHANGED <<now, user, route, queryCache, staleTime, clientRest>>

\* Medications page, onSubmit of a new medication.
AddMedication ==
    /\ storeOps < MaxMedicationOps
    /\ storage' = createRecord(storage, "medications",
                               [userId |-> SeededUserId, active |-> TRUE, time |-> 8])
    /\ response' = Created("medications",
                           WithId([userId |-> SeededUserId, active |-> TRUE, time |-> 8],
                                  storage.ids["medications"]))
    /\ storeOps' = storeOps + 1
    /\ fetching' = fetching \cup (Invalidated(MedicationsKey) \cap QueriesOf(route))
    /\ fetcher' = StartedBy(route, (Invalidated(MedicationsKey) \cap QueriesOf(route)))
    /\ UNCHANGED <<now, user, route, queryCache, staleTime, clientRest>>

NextMedications ==
    \/ \E key \in QueryKeys : FetchCompletes(key)
    \/ \E i \in 1..Len(queryCache[MedicationsKey].data) :
          handleTakeMedication(queryCache[MedicationsKey].data[i])
    \/ AddMedication

SpecMedications == InitMedications /\ [][NextMedications]_vars

(* C20: however the Take clicks interleave with the completion of the logs'   *)
(* fetches, the storage holds at most one medication log per medication and   *)
(* calendar day.                                                              *)
C20_OneLogPerMedicationAndDay ==
    \A i, j \in 1..Len(storage.maps["medicationLogs"]) :
        i # j =>
            ~(/\ storage.maps["medicationLogs"][i].value.medicationId
                    = storage.maps["medicationLogs"][j].value.medicationId
              /\ DayOf(storage.maps["medicationLogs"][i].value.scheduledTime)
                    = DayOf(storage.maps["medicationLogs"][j].value.scheduledTime))

----------------------------------------------------------------------------
(* Reports page: the composite score and a user who is on every target.       *)

MaxOnTargetSleep == 2

\* The records of a user who is on, or off, the targets: at most one weight
\* and one exercise log, and sleep entries whose mean can be the target.
OnTargetWeights(t) ==
    {<<>>} \cup {<<m>> : m \in [type : {"weight"}, value : {<<"0">>, <<"6", "0">>},
                                date : {subDays(t, 1)}]}

OnTargetSleep(t) ==
    SeqsUpTo([type : {"sleep"}, value : {<<"0">>, <<"7">>, <<"9">>},
              date : {subDays(t, 1)}],
             MaxOnTargetSleep)

OnTargetExercise(t) ==
    {<<>>} \cup {<<log>> : log \in [type : {"walking"}, duration : {Num(105), Num(210)},
                                    calories : {Null}, date : {subDays(t, 1)}]}

OnTargetUsers == [targetWeight : {Num(0), Num(60)}, targetSleep : {Num(0), Num(8)}]

InitOnTarget ==
    /\ now = Today * TicksPerDay + 1
    /\ user \in OnTargetUsers
    /\ \E weights \in OnTargetWeights(now), sleep \in OnTargetSleep(now) :
          healthMetrics = weights \o sleep
    /\ exerciseLogs \in OnTargetExercise(now)
    /\ meals \in {<<>>} \cup {<<meal>> : meal \in MealInputs(now)}
    /\ timeRange = "month"
    /\ reportData = Null
    /\ DecodeIdle
    /\ SleepIdle
    /\ GoalsIdle
    /\ ExtraIdle

SpecOnTarget == InitOnTarget /\ [][NextReports]_vars

\* The fixed weights of the composite applied to the sub-scores of a report.
WeightedSum(healthIndex) ==
    JsAdd(JsAdd(JsAdd(JsMul(Fin(3, 10), healthIndex.weight.value),
                      JsMul(Fin(2, 10), healthIndex.exercise.value)),
                JsMul(Fin(2, 10), healthIndex.sleep.value)),
          JsMul(Fin(3, 10), healthIndex.nutrition.value))

\* The position of the latest weight in range: the sort by date is stable, so
\* of two weights of one instant the later fetched one is the latest.
LatestWeight ==
    CHOOSE i \in InRangeWeights :
        \A j \in InRangeWeights :
            \/ healthMetrics[j].date < healthMetrics[i].date
            \/ (healthMetrics[j].date = healthMetrics[i].date /\ j <= i)

InRangeSleep == OfType(InRangeMetrics, "sleep")

TotalMinutes ==
    Reduce(LAMBDA sum, log : JsAdd(sum, log.duration), InRangeExercise, Num(0))

MeanSleep ==
    JsDiv(Reduce(LAMBDA sum, m : JsAdd(sum, parseFloat(m.value)), InRangeSleep, Num(0)),
          Num(Len(InRangeSleep)))

\* The latest weight is the target weight, the exercise in range adds up to
\* 210 minutes and the mean of the sleep in range is the target sleep.
OnTarget ==
    /\ InRangeWeights # {}
    /\ JsEq(parseFloat(healthMetrics[LatestWeight].value), user.targetWeight)
    /\ InRangeExercise # <<>>
    /\ JsEq(TotalMinutes, Num(210))
    /\ InRangeSleep # <<>>
    /\ JsEq(MeanSleep, user.targetSleep)

FullMarks ==
    /\ reportData.healthIndex.weight.value = Num(100)
    /\ reportData.healthIndex.exercise.value = Num(100)
    /\ reportData.healthIndex.sleep.value = Num(100)

IsWeightedSum ==
    reportData.overallHealthScore = MathRound(WeightedSum(reportData.healthIndex))

----------------------------------------------------------------------------
(* Server: the user routes.                                                    *)

\* The storage as seeded, or after "kyle" has registered.
UserStores(t) ==
    {seedData(t),
     createUser(seedData(t), [username |-> "kyle", password |-> "secret",
                              targetWeight |-> Null, targetSleep |-> Null])}

LoginBodies ==
    [username : {"sarah", "kyle"}, password : {"password123", "secret", ""}]
        \cup {[username |-> "sarah"]}

\* The bodies put to /api/user/:id; none is validated.
UserUpdates ==
    {[targetWeight |-> Num(70)], [password |-> "changed"], [username |-> "sarah"],
     [username |-> "kyle"], [id |-> 7]}

UserTargetIds == UserIds \cup {9}

InitUsers ==
    /\ now = Today * TicksPerDay + 1
    /\ storage \in UserStores(now)
    /\ response = Null
    /\ storeOps = 0
    /\ RecordsIdle
    /\ ReportsIdle
    /\ DecodeIdle
    /\ SleepIdle
    /\ GoalsIdle
    /\ BpIdle
    /\ ExerciseIdle
    /\ AppointmentsIdle
    /\ ClientIdle

NextUsers ==
    \/ \E id \in UserTargetIds : GetUser(id)
    \/ \E body \in LoginBodies : Login(body)
    \/ \E body \in RegisterBodies : Register(body)
    \/ \E id \in UserTargetIds, userData \in UserUpdates : PutUser(id, userData)

SpecUsers == InitUsers /\ [][NextUsers]_vars

(* C22: no response body of GET /api/user/:id, POST /api/login, POST           *)
(* /api/register and PUT /api/user/:id has a password field, whatever the      *)
(* stored users and the request.                                               *)
C22_NoPasswordInResponse ==
    response # Null => "password" \notin DOMAIN response.body

\* A user is sent back whose stored record holds a password: after a login,
\* and after a PUT that changed the password.
C22_Witness ==
    /\ response # Null
    /\ response.status = 200
    /\ response.kind \in {"login", "user"}
    /\ \E i \in 1..Len(storage.users) :
          /\ storage.users[i].value.id = response.body.id
          /\ "password" \in DOMAIN storage.users[i].value
          /\ WithoutPassword(storage.users[i].value) = response.body

UniqueUsernames ==
    \A i, j \in 1..Len(storage.users) :
        i # j => storage.users[i].value.username # storage.users[j].value.username

\* A register request for a username the storage holds is answered with 409
\* and leaves the storage as it is.
TakenRegisterRefused ==
    \A body \in RegisterBodies :
        (/\ Register(body)
         /\ ValidUser(body)
         /\ getUserByUsername(storage, body.username) # <<>>)
            => (response'.status = 409 /\ storage' = storage)

(* C23: after any sequence of register and user-update requests no two stored  *)
(* users have the same username, and a register request whose username exists  *)
(* already is answered with 409 and creates no user.                           *)
C23_UsernamesUnique == [](UniqueUsernames) /\ [][TakenRegisterRefused]_vars

----------------------------------------------------------------------------
(* Dashboard: the medication reminders and their take button.                  *)

\* The storage as seeded, or after a log of the day before has been posted for
\* the first medication.
DashboardStores(t) ==
    {seedData(t),
     createRecord(seedData(t), "medicationLogs",
                  [medicationId |-> 1, userId |-> SeededUserId, taken |-> FALSE,
                   scheduledTime |-> AtHour(t - TicksPerDay, seedHours[1])])}

InitDashboard ==
    /\ now = Today * TicksPerDay + 1
    /\ storage \in DashboardStores(now)
    /\ response = Null
    /\ storeOps = 0
    /\ user = RouterUser(storage)
    /\ route = "dashboard"
    /\ queryCache = [key \in QueryKeys |-> NotLoaded]
    /\ fetching = QueriesOf("dashboard")
    /\ staleTime \in StaleTimes
    /\ fetcher = [key \in QueryKeys |-> "dashboard"]
    /\ healthMetrics = <<>>
    /\ exerciseLogs = <<>>
    /\ meals = <<>>
    /\ ReportsIdle
    /\ DecodeIdle
    /\ SleepIdle
    /\ GoalsIdle
    /\ BpIdle
    /\ ExerciseIdle
    /\ AppointmentsIdle

\* processMedications: a reminder's state comes from the first log of the
\* medication that is scheduled today or later.
processMedications(medications, medicationLogs, t) ==
    [i \in 1..Len(medications) |->
        [id |-> medications[i].id,
         isUpcoming |-> todaysLogs(medicationLogs, medications[i], t) # <<>>,
         taken |-> IF todaysLogs(medicationLogs, medications[i], t) # <<>>
                   THEN todaysLogs(medicationLogs, medications[i], t)[1].taken
                   ELSE FALSE]]

\* medicationLogs?.find(l => l.medicationId === id)
logsOf(medicationLogs, id) == SelectSeq(medicationLogs, LAMBDA l : l.medicationId = id)

\* The reminders are there once both queries have data.
RemindersShown ==
    queryCache[MedicationsKey].loaded /\ queryCache[MedicationLogsKey].loaded

\* Dashboard.handleTakeMedication(id): the found log is put with its taken flag
\* negated and the logs are fetched again; without a log nothing is sent.
dashboardTakeMedication(id) ==
    /\ route = "dashboard"
    /\ RemindersShown
    /\ storeOps < MaxMedicationOps
    /\ logsOf(queryCache[MedicationLogsKey].data, id) # <<>>
    /\ storage' = afterToggle(storage, logsOf(queryCache[MedicationLogsKey].data, id)[1], now)
    /\ response' = [kind |-> "take", status |-> 200]
    /\ storeOps' = storeOps + 1
    /\ fetching' = fetching \cup {MedicationLogsKey}
    /\ fetcher' = StartedBy(route, {MedicationLogsKey})
    /\ UNCHANGED <<now, user, route, queryCache, staleTime, clientRest>>

NextDashboard ==
    \/ \E key \in QueryKeys : FetchCompletes(key)
    \/ \E i \in 1..Len(queryCache[MedicationsKey].data) :
          dashboardTakeMedication(queryCache[MedicationsKey].data[i].id)

SpecDashboard == InitDashboard /\ [][NextDashboard]_vars

\* The logs the reminder of medication id is derived from.
ShownLogs(id) == todaysLogs(queryCache[MedicationLogsKey].data, [id |-> id], now)

SameLog(a, b) == a.medicationId = b.medicationId /\ a.scheduledTime = b.scheduledTime

\* The stored logs after the step are those before it, but for the taken flag
\* of the log the reminder of medication id shows, which is negated.
OnlyShownLogFlipped(id) ==
    /\ Len(storage'.maps["medicationLogs"]) = Len(storage.maps["medicationLogs"])
    /\ \A i \in 1..Len(storage.maps["medicationLogs"]) :
          IF SameLog(storage.maps["medicationLogs"][i].value, ShownLogs(id)[1])
          THEN /\ storage'.maps["medicationLogs"][i].key
                    = storage.maps["medicationLogs"][i].key
               /\ SameLog(storage'.maps["medicationLogs"][i].value,
                          storage.maps["medicationLogs"][i].value)
               /\ storage'.maps["medicationLogs"][i].value.taken
                    = ~storage.maps["medicationLogs"][i].value.taken
          ELSE storage'.maps["medicationLogs"][i] = storage.maps["medicationLogs"][i]

TakeFlipsShownLog ==
    \A id \in 1..3 :
        (dashboardTakeMedication(id) /\ ShownLogs(id) # <<>>) => OnlyShownLogFlipped(id)

(* C24: a click on the take button of a medication's reminder negates the      *)
(* taken flag of the log the reminder's state is derived from (the first log   *)
(* of the medication scheduled today or later) and changes no other medication *)
(* log, from the seeded store and when the medication has a log of an earlier  *)
(* day as well.                                                                *)
C24_TakeFlipsShownLog == [][TakeFlipsShownLog]_vars

----------------------------------------------------------------------------
(* Blood pressure: a reading typed the way the dialog asks for it.             *)

\* The text of the placeholder of the dialog's BP tab: 120/80.
PromptedText == <<"120", "/", "80">>

AsTyped == [systolic |-> Num(120), diastolic |-> Num(80)]

(* C25: a blood pressure reading saved in the format the dialog prompts for,   *)
(* 120/80, is afterwards shown by the dashboard, the metrics page and the      *)
(* reports with systolic 120 and diastolic 80.                                 *)
C25_PromptedFormatShownAsTyped ==
    (bpView # Null /\ ~bpView.raised) =>
        /\ \A i \in 1..Len(bpView.chart) :
              ReadingsOf(bpView)[i].value = PromptedText =>
                  /\ bpView.chart[i].systolic = AsTyped.systolic
                  /\ bpView.chart[i].diastolic = AsTyped.diastolic
        /\ (/\ bpView.page # "reports"
            /\ ReadingsOf(bpView) # <<>>
            /\ latestFirst(healthMetrics, "blood_pressure")[1].value = PromptedText)
               => bpView.card = AsTyped

----------------------------------------------------------------------------
(* Medication logs: taken and takenTime.                                       *)

HasTakenTime(log) == "takenTime" \in DOMAIN log /\ log.takenTime.given

(* C26: after any sequence of take and untake clicks every stored medication   *)
(* log that is not taken has no takenTime and every log that is taken has one. *)
C26_TakenTimeMatchesTaken ==
    \A i \in 1..Len(storage.maps["medicationLogs"]) :
        storage.maps["medicationLogs"][i].value.taken
            <=> HasTakenTime(storage.maps["medicationLogs"][i].value)

----------------------------------------------------------------------------
(* Goals page: Complete and Reactivate.                                        *)

CompletedAtFullProgress ==
    \A i \in 1..Len(goals) : goals[i].completed => goals[i].progress = Num(100)

\* The step leaves every goal its id, category, target and current value.
OtherFieldsKept ==
    /\ Len(goals') = Len(goals)
    /\ \A j \in 1..Len(goals) :
          /\ goals'[j].id = goals[j].id
          /\ goals'[j].category = goals[j].category
          /\ goals'[j].target = goals[j].target
          /\ goals'[j].currentValue = goals[j].currentValue

CompleteKeepsOtherFields ==
    \A i \in 1..(Len(SeededGoals) + MaxGoalOps) : completeGoal(i) => OtherFieldsKept

----------------------------------------------------------------------------
(* Client: the pages that ask for the medications and the meals.               *)

\* The storage after an inactive medication and a meal of the day before have
\* been posted.
PageStores(t) ==
    {createRecord(createRecord(seedData(t), "medications",
                               [userId |-> SeededUserId, active |-> FALSE, time |-> 8]),
                  "meals", [userId |-> SeededUserId, date |-> t - TicksPerDay])}

ListPages == {"dashboard", "medications", "nutrition", "reports"}

\* The application is opened at any of the pages.
InitPages ==
    /\ now = Today * TicksPerDay + 1
    /\ storage \in PageStores(now)
    /\ response = Null
    /\ storeOps = 0
    /\ user = RouterUser(storage)
    /\ route \in ListPages
    /\ queryCache = [key \in QueryKeys |-> NotLoaded]
    /\ fetching = QueriesOf(route)
    /\ staleTime \in StaleTimes
    /\ fetcher = [key \in QueryKeys |-> route]
    /\ healthMetrics = <<>>
    /\ exerciseLogs = <<>>
    /\ meals = <<>>
    /\ ReportsIdle
    /\ DecodeIdle
    /\ SleepIdle
    /\ GoalsIdle
    /\ BpIdle
    /\ ExerciseIdle
    /\ AppointmentsIdle

NextPages ==
    \/ \E p \in ListPages : Navigate(p)
    \/ \E key \in QueryKeys : FetchCompletes(key)

SpecPages == InitPages /\ [][NextPages]_vars

\* What the page shows of a query: its data, once it has any.
Shows(p, key) == route = p /\ queryCache[key].loaded

AllActive(medications) == \A i \in 1..Len(medications) : medications[i].active

AllOfToday(mealList, t) == \A i \in 1..Len(mealList) : DayOf(mealList[i].date) = DayOf(t)

(* C28: whatever pages were shown before, the dashboard's reminders are of     *)
(* active medications only and its meals are of today only, and the            *)
(* medications page and the nutrition page list all the medications and all    *)
(* the meals of the user.                                                      *)
C28_PagesShowOwnLists ==
    /\ Shows("dashboard", MedicationsKey) => AllActive(queryCache[MedicationsKey].data)
    /\ Shows("dashboard", MealsKey) => AllOfToday(queryCache[MealsKey].data, now)
    /\ Shows("medications", MedicationsKey) =>
          queryCache[MedicationsKey].data = getMedications(storage, SeededUserId, NotGiven)
    /\ Shows("nutrition", MealsKey) =>
          queryCache[MealsKey].data = getMeals(storage, SeededUserId, NotGiven)

----------------------------------------------------------------------------
(* Server: update and delete requests for records that are or are not there.   *)

\* The ids of the entity's stored records, as a list request shows them.
StoredIds(st, e) == {st.maps[e][i].value.id : i \in 1..Len(st.maps[e])}

\* The entity's stored records but the ones with the id.
Without(st, e, id) == SelectSeq(MapValues(st.maps[e]), LAMBDA r : r.id # id)

\* The request is answered 404 and the storage is as it was.
Refused == response'.status = 404 /\ storage' = storage

\* The request removes the record with the id and no other, of no other entity.
RemovesOnly(e, id) ==
    /\ MapValues(storage'.maps[e]) = Without(storage, e, id)
    /\ Len(storage'.maps[e]) = Len(storage.maps[e]) - 1
    /\ \A o \in Entities \ {e} : storage'.maps[o] = storage.maps[o]
    /\ storage'.users = storage.users
    /\ storage'.ids = storage.ids
    /\ storage'.userId = storage.userId

AbsentIdRefused ==
    /\ \A e \in Updatable : \A id \in TargetIds \ StoredIds(storage, e) :
          /\ (\E body \in UpdateBodies : PutRecord(e, id, body)) => Refused
          /\ DeleteRecord(e, id) => Refused
    /\ \A id \in TargetIds \ StoredIds(storage, "medicationLogs") :
          (\E body \in TakenBodies(now) : PutMedicationLog(id, body)) => Refused
    /\ \A id \in UserIds \ StoredUserIds :
          PutUser(id, [targetWeight |-> Num(70)]) => Refused

DeleteIsExact ==
    \A e \in Updatable, id \in TargetIds :
        (DeleteRecord(e, id) /\ response'.status = 200) => RemovesOnly(e, id)

(* C29: an update or a delete request for an id no stored record has is        *)
(* answered 404 and changes neither a collection nor a counter, and a delete   *)
(* answered 200 removes the record with that id and nothing else, so that the  *)
(* id is absent for a later delete.                                            *)
C29_AbsentRefusedDeleteExact == [][AbsentIdRefused /\ DeleteIsExact]_vars

----------------------------------------------------------------------------
(* Appointments page: the Upcoming, Today and Past tabs.                        *)

MaxAppointments == 2

\* The number of ticks the page is watched for.
MaxWatched == 3

\* date-fns: isFuture, isPast and isToday compare the date with Date.now(),
\* read at the call.
isFuture(date, clock) == date > clock

isPast(date, clock) == date < clock

isToday(date, clock) == DayOf(date) = DayOf(clock)

\* The tabs' filters call the three functions one after the other, twice for
\* every appointment of a tab; the place of a call among all of them.
CallOf(tab, i, call, n) == ((tab - 1) * n + (i - 1)) * 2 + call

NoOfCalls(n) == 3 * n * 2

\* Date.now() at a call, when the clock started at t and went on by a tick
\* before the call at place turn; it did not go on when turn is past the last.
ClockAt(place, t, turn) == IF place >= turn THEN t + 1 ELSE t

RECURSIVE PickFrom(_, _, _)
\* Array.prototype.filter: the elements at the kept places, in their order.
PickFrom(s, kept, i) ==
    IF i > Len(s) THEN <<>>
    ELSE (IF i \in kept THEN <<s[i]>> ELSE <<>>) \o PickFrom(s, kept, i + 1)

KeptUpcoming(sorted, t, turn) ==
    {i \in 1..Len(sorted) :
        /\ isFuture(sorted[i].date, ClockAt(CallOf(1, i, 1, Len(sorted)), t, turn))
        /\ ~isToday(sorted[i].date, ClockAt(CallOf(1, i, 2, Len(sorted)), t, turn))}

KeptToday(sorted, t, turn) ==
    {i \in 1..Len(sorted) :
        isToday(sorted[i].date, ClockAt(CallOf(2, i, 1, Len(sorted)), t, turn))}

KeptPast(sorted, t, turn) ==
    {i \in 1..Len(sorted) :
        /\ isPast(sorted[i].date, ClockAt(CallOf(3, i, 1, Len(sorted)), t, turn))
        /\ ~isToday(sorted[i].date, ClockAt(CallOf(3, i, 2, Len(sorted)), t, turn))}

EmptyTabs == [upcoming |-> <<>>, today |-> <<>>, past |-> <<>>]

tabsOf(sorted, t, turn) ==
    [upcoming |-> PickFrom(sorted, KeptUpcoming(sorted, t, turn), 1),
     today |-> PickFrom(sorted, KeptToday(sorted, t, turn), 1),
     past |-> PickFrom(sorted, KeptPast(sorted, t, turn), 1)]

\* groupedAppointments, computed from the query's data with the clock at t.
groupedAppointmentsOf(data, t, turn) ==
    IF ~data.loaded THEN EmptyTabs ELSE tabsOf(SortByDateAsc(data.data), t, turn)

\* The dates of the appointments: from the day before to the day after the
\* next.
AppointmentDates(t) == ((DayOf(t) - 1) * TicksPerDay)..((DayOf(t) + 2) * TicksPerDay - 1)

\* The lists GET /api/appointments/:userId answers with.
AppointmentLists(t) ==
    UNION {{[i \in 1..k |-> [id |-> i, date |-> dates[i]]] :
                dates \in [1..k -> AppointmentDates(t)]} : k \in 0..MaxAppointments}

InitAppointments ==
    /\ now \in {Today * TicksPerDay, Today * TicksPerDay + 1}
    /\ appointments = NotLoaded
    /\ groupedAppointments = EmptyTabs
    /\ RecordsIdle
    /\ ReportsIdle
    /\ DecodeIdle
    /\ SleepIdle
    /\ GoalsIdle
    /\ BpIdle
    /\ ExerciseIdle
    /\ StoreIdle
    /\ ClientIdle

LastWatched == Today * TicksPerDay + MaxWatched

\* The query's data arrives or changes: useMemo's dependency has changed and
\* the tabs are computed anew.
AppointmentsArrive(list, turn) ==
    /\ Loaded(list) # appointments
    /\ ClockAt(NoOfCalls(Len(list)), now, turn) <= LastWatched
    /\ appointments' = Loaded(list)
    /\ groupedAppointments' = groupedAppointmentsOf(Loaded(list), now, turn)
    /\ now' = ClockAt(NoOfCalls(Len(list)), now, turn)
    /\ UNCHANGED <<decodeVars, recordVars, reportVars, sleepVars, goalVars, bpVars,
                   exerciseVars, storeVars, clientVars>>

\* Time passes with the page open: a render with the same data keeps the
\* tabs useMemo holds.
TimePasses ==
    /\ now < LastWatched
    /\ now' = now + 1
    /\ UNCHANGED <<decodeVars, recordVars, reportVars, sleepVars, goalVars, extraVars>>

NextAppointments ==
    \/ \E list \in AppointmentLists(Today * TicksPerDay) :
          \E turn \in 1..(NoOfCalls(Len(list)) + 1) : AppointmentsArrive(list, turn)
    \/ TimePasses

SpecAppointments == InitAppointments /\ [][NextAppointments]_vars

Tabs == {"upcoming", "today", "past"}

\* The places at which the tab lists the appointment.
PlacesIn(tab, apt) ==
    {i \in 1..Len(groupedAppointments[tab]) : groupedAppointments[tab][i] = apt}

Ascending(s) == \A i \in 1..(Len(s) - 1) : s[i].date <= s[i + 1].date

(* C30: at every time, each appointment of the page is listed once, in one of  *)
(* the Upcoming, Today and Past tabs; an appointment of today's calendar day   *)
(* is in the Today tab; and each tab is in ascending order of date.            *)
C30_OneTabEachAscending ==
    /\ \A i \in 1..Len(appointments.data) :
          /\ \E tab \in Tabs :
                /\ Cardinality(PlacesIn(tab, appointments.data[i])) = 1
                /\ \A other \in Tabs \ {tab} : PlacesIn(other, appointments.data[i]) = {}
          /\ isToday(appointments.data[i].date, now)
                => PlacesIn("today", appointments.data[i]) # {}
    /\ \A tab \in Tabs : Ascending(groupedAppointments[tab])

====
